---- MODULE Spec2Model ----
(***************************************************************************)
(* Verification model of the 8088 core of martypc:                         *)
(*   - the prefetch InstructionQueue        (core/src/cpu_808x/queue.rs)   *)
(*   - segment:offset linearization         (cpu_808x/addressing.rs,       *)
(*                                           arduino8088_validator/mod.rs) *)
(*   - the validator's register buffer      (arduino8088_validator/mod.rs) *)
(*   - the ArduinoValidator: bus-op, cycle-state and register comparison,  *)
(*     discarding                           (arduino8088_validator/mod.rs) *)
(*   - the instruction decoder              (cpu_808x/decode.rs)           *)
(*   - operand access, effective addresses  (cpu_808x/addressing.rs)       *)
(*     and far pointers                                                    *)
(***************************************************************************)
EXTENDS Integers, Sequences, FiniteSets, TLC

(***************************************************************************)
(* Fixed-width integer helpers (Rust u8 / u16 / u32 arithmetic).           *)
(***************************************************************************)
RECURSIVE BitAnd(_, _)
\* a & b on naturals, bit by bit
BitAnd(a, b) ==
    IF a = 0 \/ b = 0 THEN 0
    ELSE (IF a % 2 = 1 /\ b % 2 = 1 THEN 1 ELSE 0) + 2 * BitAnd(a \div 2, b \div 2)

RECURSIVE BitOr(_, _)
\* a | b on naturals, bit by bit
BitOr(a, b) ==
    IF a = 0 THEN b
    ELSE IF b = 0 THEN a
    ELSE (IF a % 2 = 1 \/ b % 2 = 1 THEN 1 ELSE 0) + 2 * BitOr(a \div 2, b \div 2)

\* x reduced to a w-bit unsigned integer. The model's integers stop below
\* 2^31, so every value it can hold already fits 32 bits.
Wrap(x, w) == IF w >= 31 THEN x ELSE x % (2 ^ w)

\* x << n in a w-bit unsigned integer (bits shifted out are lost)
Shl(x, n, w) == Wrap(x * (2 ^ n), w)

\* a + b in a w-bit unsigned integer
Add(a, b, w) == Wrap(a + b, w)

\* x >> n, logical
Shr(x, n) == x \div (2 ^ n)

\* `as u8`, `as u16`: truncating casts
AsU8(x) == x % 256
AsU16(x) == x % 65536

(***************************************************************************)
(* Bounds and sampled inputs.                                              *)
(***************************************************************************)
\* upper bound on the bytes enqueued since the queue was created or flushed
MaxPush == 6

\* bytes handed to push8, words handed to push16 (0xD4C3: low byte 0xC3)
PushBytes == {161, 178}
PushWords == {54467}

\* upper bound on the number of new / set_size calls in a run
MaxResize == 1

(***************************************************************************)
(* InstructionQueue                                                        *)
(***************************************************************************)
\* compile-time size of the backing arrays q and _dt
QUEUE_MAX == 6

\* Option<u8>: None is the empty sequence, Some(b) is <<b>>
None == << >>
Some(b) == << b >>

NoPanic == "none"

\* result of a method call: the object afterwards, the value returned, and
\* the panic message when the call panicked
Returned(s, v) == [q |-> s, ret |-> v, panic |-> NoPanic]
Panicked(s, msg) == [q |-> s, ret |-> None, panic |-> msg]

new(size) ==
    [size    |-> size,
     len     |-> 0,
     back    |-> 0,
     front   |-> 0,
     q       |-> [i \in 0..(QUEUE_MAX - 1) |-> 0],
     preload |-> None,
     delay   |-> "None"]

\* the 8088's queue capacity, InstructionQueue::default()
DefaultSize == 4

default == new(DefaultSize)

\* sizes handed to new / set_size: none, small, the 8088's, one past the arrays
QueueSizes == {0, 2, DefaultSize, QUEUE_MAX + 1}

set_size(s, size) ==
    IF size <= QUEUE_MAX
    THEN Returned([s EXCEPT !.size = size], None)
    ELSE Panicked(s, "assertion failed: size <= QUEUE_MAX")

len(s) == s.len

is_full(s) == s.len = s.size

get_preload(s) == Returned([s EXCEPT !.preload = None], s.preload)

has_preload(s) == s.preload # None

get_delay(s) == s.delay

push8_delay_at_4(s, byte) ==
    IF s.len < s.size THEN
        IF s.front >= QUEUE_MAX THEN Panicked(s, "index out of bounds")
        ELSE LET n == s.len + 1 IN
             Returned([s EXCEPT !.q[s.front] = byte,
                                !.front = (s.front + 1) % s.size,
                                !.len = n,
                                !.delay = IF n = 4 THEN "Write" ELSE "None"], None)
    ELSE Panicked(s, "Queue overrun!")

push8(s, byte) ==
    IF s.len < s.size THEN
        IF s.front >= QUEUE_MAX THEN Panicked(s, "index out of bounds")
        ELSE LET n == s.len + 1 IN
             Returned([s EXCEPT !.q[s.front] = byte,
                                !.front = (s.front + 1) % s.size,
                                !.len = n,
                                !.delay = IF n = 3 THEN "Write" ELSE "None"], None)
    ELSE Panicked(s, "Queue overrun!")

push16(s, word) ==
    LET r1 == push8(s, AsU8(BitAnd(word, 255))) IN
    IF r1.panic # NoPanic THEN r1
    ELSE push8(r1.q, AsU8(BitAnd(Shr(word, 8), 255)))

pop_keeps_len(s) ==
    IF s.len > 0 THEN
        IF s.back >= QUEUE_MAX THEN Panicked(s, "index out of bounds")
        ELSE IF s.size = 0 THEN Panicked(s, "remainder with a divisor of zero")
        ELSE Returned([s EXCEPT !.back = (s.back + 1) % s.size,
                                !.delay = IF s.len >= 3 THEN "Read" ELSE "None"],
                      Some(s.q[s.back]))
    ELSE Panicked(s, "Queue underrun!")

pop_no_wrap(s) ==
    IF s.len > 0 THEN
        IF s.back >= QUEUE_MAX THEN Panicked(s, "index out of bounds")
        ELSE IF s.size = 0 THEN Panicked(s, "remainder with a divisor of zero")
        ELSE LET n == s.len - 1 IN
             Returned([s EXCEPT !.back = (s.back + 1) % QUEUE_MAX,
                                !.len = n,
                                !.delay = IF n >= 3 THEN "Read" ELSE "None"],
                      Some(s.q[s.back]))
    ELSE Panicked(s, "Queue underrun!")

pop(s) ==
    IF s.len > 0 THEN
        IF s.back >= QUEUE_MAX THEN Panicked(s, "index out of bounds")
        ELSE IF s.size = 0 THEN Panicked(s, "remainder with a divisor of zero")
        ELSE LET n == s.len - 1 IN
             Returned([s EXCEPT !.back = (s.back + 1) % s.size,
                                !.len = n,
                                !.delay = IF n >= 3 THEN "Read" ELSE "None"],
                      Some(s.q[s.back]))
    ELSE Panicked(s, "Queue underrun!")

set_preload(s) ==
    IF s.len > 0 THEN
        LET r == pop(s) IN
        IF r.panic # NoPanic THEN r
        ELSE Returned([r.q EXCEPT !.preload = r.ret], None)
    ELSE Panicked(s, "Tried to preload with empty queue.")

flush_keeps_indices(s) ==
    Returned([s EXCEPT !.len = 0, !.preload = None, !.delay = "None"], None)

flush(s) ==
    Returned([s EXCEPT !.len = 0, !.back = 0, !.front = 0,
                       !.preload = None, !.delay = "None"], None)

\* the bytes to_slice writes, in order: slice[i] for i < len
to_slice(s) == [i \in 1..s.len |-> s.q[(s.back + (i - 1)) % s.size]]

HexDigits == <<"0", "1", "2", "3", "4", "5", "6", "7",
               "8", "9", "A", "B", "C", "D", "E", "F">>

\* format!("{:02X}", b)
Hex02(b) == << HexDigits[(b \div 16) + 1], HexDigits[(b % 16) + 1] >>

RECURSIVE Concat(_)
Concat(ss) == IF ss = << >> THEN << >> ELSE Head(ss) \o Concat(Tail(ss))

to_string(s) == Concat([i \in 1..s.len |-> Hex02(s.q[(s.back + (i - 1)) % s.size])])

(***************************************************************************)
(* Segment:offset linearization                                            *)
(***************************************************************************)
\* sampled 16-bit segment and offset values
SegVals == {0, 4096, 61440, 65535}
OffVals == {0, 16, 4660, 65535}

Segments == {"None", "ES", "CS", "DS", "SS"}

calc_linear_address(segment, offset) ==
    BitAnd(Add(Shl(segment, 4, 32), offset, 32), 1048575)

\* the match on Segment in calc_linear_address_seg
segment_val(c, segment) ==
    CASE segment = "None" -> 0
      [] segment = "ES" -> c.es
      [] segment = "CS" -> c.cs
      [] segment = "DS" -> c.ds
      [] segment = "SS" -> c.ss

calc_linear_address_seg_shl16(c, segment, offset) ==
    BitAnd(Add(Shl(segment_val(c, segment), 4, 16), offset, 32), 1048575)

calc_linear_address_seg(c, segment, offset) ==
    BitAnd(Add(Shl(segment_val(c, segment), 4, 32), offset, 32), 1048575)

make_pointer_unmasked(base, offset) ==
    Add(Shl(base, 4, 32), offset, 32)

make_pointer(base, offset) ==
    BitAnd(Add(Shl(base, 4, 32), offset, 32), 1048575)

(***************************************************************************)
(* Register buffer of the validator                                        *)
(***************************************************************************)
RegNames == {"ax", "bx", "cx", "dx", "ss", "sp", "flags", "ip",
             "cs", "ds", "es", "bp", "si", "di"}

\* VRegisters::default()
DefaultRegs == [n \in RegNames |-> 0]

\* a register image with fourteen different values, high and low bytes differing
RampRegs ==
    [ax |-> 4386, bx |-> 13124, cx |-> 21862, dx |-> 30600, ss |-> 39338,
     sp |-> 48076, flags |-> 61446, ip |-> 258, cs |-> 772, ds |-> 1286,
     es |-> 1800, bp |-> 2314, si |-> 2828, di |-> 3342]

\* sampled register images
RegImages ==
    {DefaultRegs, RampRegs, [n \in RegNames |-> 65535]}
    \cup {[DefaultRegs EXCEPT ![n] = v] : n \in RegNames, v \in {4660, 255, 65280}}

\* let mut reg_buf: [u8; 28] = [0; 28]
ZeroBuf == [i \in 0..27 |-> 0]

\* store of one register: buf[k] = (r & 0xFF) as u8; buf[k+1] = ((r >> 8) & 0xFF) as u8
PutLE(buf, k, r) ==
    [buf EXCEPT ![k] = AsU8(BitAnd(r, 255)), ![k + 1] = AsU8(BitAnd(Shr(r, 8), 255))]

\* load of one register: buf[k] as u16 | ((buf[k+1] as u16) << 8)
GetLE(buf, k) == BitOr(buf[k], Shl(buf[k + 1], 8, 16))

regs_to_buf(buf, regs) ==
    LET b0 == PutLE(buf, 0, regs.ax)
        b1 == PutLE(b0, 2, regs.bx)
        b2 == PutLE(b1, 4, regs.cx)
        b3 == PutLE(b2, 6, regs.dx)
        b4 == PutLE(b3, 8, regs.ss)
        b5 == PutLE(b4, 10, regs.sp)
        b6 == PutLE(b5, 12, regs.flags)
        b7 == PutLE(b6, 14, regs.ip)
        b8 == PutLE(b7, 16, regs.cs)
        b9 == PutLE(b8, 18, regs.ds)
        b10 == PutLE(b9, 20, regs.es)
        b11 == PutLE(b10, 22, regs.bp)
        b12 == PutLE(b11, 24, regs.si)
    IN  PutLE(b12, 26, regs.di)

buf_to_regs_bp_from_es(buf) ==
    [ax |-> GetLE(buf, 0), bx |-> GetLE(buf, 2), cx |-> GetLE(buf, 4),
     dx |-> GetLE(buf, 6), ss |-> GetLE(buf, 8), sp |-> GetLE(buf, 10),
     flags |-> GetLE(buf, 12), ip |-> GetLE(buf, 14), cs |-> GetLE(buf, 16),
     ds |-> GetLE(buf, 18), es |-> GetLE(buf, 20), bp |-> GetLE(buf, 20),
     si |-> GetLE(buf, 24), di |-> GetLE(buf, 26)]

buf_to_regs(buf) ==
    [ax |-> GetLE(buf, 0), bx |-> GetLE(buf, 2), cx |-> GetLE(buf, 4),
     dx |-> GetLE(buf, 6), ss |-> GetLE(buf, 8), sp |-> GetLE(buf, 10),
     flags |-> GetLE(buf, 12), ip |-> GetLE(buf, 14), cs |-> GetLE(buf, 16),
     ds |-> GetLE(buf, 18), es |-> GetLE(buf, 20), bp |-> GetLE(buf, 22),
     si |-> GetLE(buf, 24), di |-> GetLE(buf, 26)]

(***************************************************************************)
(* Cycle states of the validator                                           *)
(***************************************************************************)
\* longest cycle-state sequence sampled
MaxCycles == 3

\* most correct_queue_counts passes applied to one sequence
MaxPasses == 2

\* QueueOp: the queue status lines of one cycle
QueueOps == {"Idle", "First", "Subsequent", "Flush"}

\* queue lengths sampled in cycle states: an empty queue and a half-full one
QLens == {0, 2}

\* CycleState, reduced to the data bus byte and the two queue fields.  q_len
\* is an unsigned field; a value that wrapped below zero is written as the
\* negative residue congruent to it (-1 for the all-ones value).
CycleSamples == [q_op : QueueOps, q_len : QLens, data : {144}]

RECURSIVE SeqsUpTo(_, _)
\* all sequences over S of length at most n
SeqsUpTo(S, n) ==
    IF n = 0 THEN {<< >>}
    ELSE LET shorter == SeqsUpTo(S, n - 1)
         IN  shorter \cup {Append(q, x) : q \in {t \in shorter : Len(t) = n - 1},
                                          x \in S}

validate_cycles_len_index(cpu, emu) ==
    IF Len(emu) # Len(cpu) THEN << FALSE, 0 >>
    ELSE LET diff == {i \in 1..Len(cpu) : emu[i] # cpu[i]}
         IN  IF diff # {}
             THEN << FALSE, (CHOOSE i \in diff : \A j \in diff : i <= j) - 1 >>
             ELSE << TRUE, Len(cpu) >>

\* (ok, index) as validate_cycles returns it; the index is zero-based
validate_cycles(cpu, emu) ==
    IF Len(emu) # Len(cpu) THEN << FALSE, 0 >>
    ELSE LET diff == {i \in 1..Len(cpu) : emu[i] # cpu[i]}
         IN  IF diff # {}
             THEN << FALSE, (CHOOSE i \in diff : \A j \in diff : i <= j) - 1 >>
             ELSE << TRUE, 0 >>

RECURSIVE cqc_loop(_, _, _)
\* the loop of correct_queue_counts from (one-based) index i on; with overflow
\* checks a decrement of a zero q_len panics and leaves the earlier edits
cqc_loop(cs, i, checks) ==
    IF i > Len(cs) THEN [states |-> cs, panic |-> NoPanic]
    ELSE IF cs[i].q_op \in {"First", "Subsequent"} /\ i > 1
    THEN IF checks /\ cs[i - 1].q_len = 0
         THEN [states |-> cs, panic |-> "attempt to subtract with overflow"]
         ELSE cqc_loop([cs EXCEPT ![i - 1].q_len = @ - 1], i + 1, checks)
    ELSE IF cs[i].q_op = "Flush" /\ i > 1
    THEN cqc_loop([cs EXCEPT ![i - 1].q_len = 0], i + 1, checks)
    ELSE cqc_loop(cs, i + 1, checks)

correct_queue_counts_flush_only(cs, checks) ==
    [states |-> [i \in DOMAIN cs |->
                    IF i < Len(cs) /\ cs[i + 1].q_op = "Flush"
                    THEN [cs[i] EXCEPT !.q_len = 0]
                    ELSE cs[i]],
     panic |-> NoPanic]

correct_queue_counts(cs, checks) == cqc_loop(cs, 1, checks)

\* emulator cycle sequences to compare cs with: cs itself, the sequence the
\* step returned, cs without its last cycle, cs with one data byte changed
EmuCandidates(cs, orig) ==
    {cs, orig}
    \cup (IF cs = << >> THEN {} ELSE {SubSeq(cs, 1, Len(cs) - 1)})
    \cup {[cs EXCEPT ![i].data = 0] : i \in DOMAIN cs}

(***************************************************************************)
(* ArduinoValidator                                                        *)
(***************************************************************************)
VISIT_ONCE == FALSE

\* 0xFFFFFFFF, written as the residue -1: no 20-bit address equals it
V_INVALID_POINTER == -1

UPPER_MEMORY == 655360

MOF_EMULATOR == 1

MOF_PI8088 == 2

\* most bus operations the emulator records for one instruction
MaxOps == 2

ValidatorModes == {"Cycle", "Instruction"}

\* the prefix bytes the opcode scan of validate_instruction skips
PrefixBytes == {38, 46, 54, 62, 240, 242, 243}

BusOp(op_type, addr, data, flags) ==
    [op_type |-> op_type, addr |-> addr, data |-> data, flags |-> flags]

\* InstructionContext::new(), with the fields the validation reads
InstructionContext_new ==
    [discard |-> FALSE,
     regs |-> [i \in 0..1 |-> DefaultRegs],
     opcode |-> 0,
     modrm |-> 0,
     emu_ops |-> << >>,
     cpu_ops |-> << >>]

\* ArduinoValidator::new(); visited is the set of addresses flagged true
ArduinoValidator_new ==
    [mode |-> "Cycle",
     current_instr |-> InstructionContext_new,
     state |-> "Setup",
     trigger_addr |-> V_INVALID_POINTER,
     mask_flags |-> TRUE,
     visit_once |-> VISIT_ONCE,
     visited |-> {}]

init(vv, mode, mask_flags, visit_once) ==
    [vv EXCEPT !.mode = mode, !.mask_flags = mask_flags,
               !.visit_once = visit_once]

reset_instruction(vv) ==
    [vv EXCEPT !.current_instr.emu_ops = << >>,
               !.current_instr.cpu_ops = << >>]

begin_instruction(vv, regs) ==
    LET ip_addr == make_pointer(regs.cs, regs.ip)
        v1 == [vv EXCEPT !.current_instr.discard = FALSE,
                         !.current_instr.regs[0] = regs]
        v2 == IF v1.trigger_addr = ip_addr
              THEN [v1 EXCEPT !.trigger_addr = V_INVALID_POINTER]
              ELSE v1
    IN  IF /\ v2.mode = "Instruction"
           /\ v2.visit_once
           /\ ip_addr >= UPPER_MEMORY
           /\ ip_addr \in v2.visited
        THEN [v2 EXCEPT !.current_instr.discard = TRUE]
        ELSE v2

emu_read_byte(vv, addr, data, bus_type, read_type) ==
    IF vv.current_instr.discard THEN vv
    ELSE LET op_type == IF bus_type = "Io" THEN "IoRead"
                        ELSE IF read_type = "Code" THEN "CodeRead"
                        ELSE "MemRead"
         IN  [vv EXCEPT !.current_instr.emu_ops =
                            Append(@, BusOp(op_type, addr, data, MOF_EMULATOR))]

emu_write_byte(vv, addr, data, bus_type) ==
    LET v1 == [vv EXCEPT !.visited = @ \ {BitAnd(addr, 1048575)}]
        op_type == IF bus_type = "Mem" THEN "MemWrite" ELSE "IoWrite"
    IN  IF v1.current_instr.discard THEN v1
        ELSE [v1 EXCEPT !.current_instr.emu_ops =
                            Append(@, BusOp(op_type, addr, data, MOF_EMULATOR))]

discard_op(vv) == [vv EXCEPT !.current_instr.discard = TRUE]

mem_ops_equal_with_flags(emu_ops, cpu_ops) ==
    /\ Len(emu_ops) = Len(cpu_ops)
    /\ \A i \in 1..Len(emu_ops) : emu_ops[i] = cpu_ops[i]

\* the comparison loop of validate_mem_ops: kind, address and data, pairwise
mem_ops_equal(emu_ops, cpu_ops) ==
    /\ Len(emu_ops) = Len(cpu_ops)
    /\ \A i \in 1..Len(emu_ops) :
          /\ emu_ops[i].op_type = cpu_ops[i].op_type
          /\ emu_ops[i].addr = cpu_ops[i].addr
          /\ emu_ops[i].data = cpu_ops[i].data

validate_mem_ops_discard_cpu(vv, discard) ==
    LET ci == vv.current_instr
        refused == discard /\ (Len(ci.cpu_ops) = 0
                               \/ ci.cpu_ops[1].op_type # "CodeRead")
        v1 == IF discard /\ ~refused
              THEN [vv EXCEPT !.current_instr.cpu_ops = Tail(@)]
              ELSE vv
    IN  [ok |-> ~refused /\ mem_ops_equal(v1.current_instr.emu_ops,
                                          v1.current_instr.cpu_ops),
         v |-> v1,
         emu |-> v1.current_instr.emu_ops,
         cpu |-> v1.current_instr.cpu_ops]

\* validate_mem_ops: the verdict, the validator it leaves, and the two
\* sequences as they stood when it returned
validate_mem_ops(vv, discard) ==
    LET ci == vv.current_instr
        refused == discard /\ (Len(ci.emu_ops) = 0
                               \/ ci.emu_ops[1].op_type # "CodeRead")
        v1 == IF discard /\ ~refused
              THEN [vv EXCEPT !.current_instr.emu_ops = Tail(@)]
              ELSE vv
    IN  [ok |-> ~refused /\ mem_ops_equal(v1.current_instr.emu_ops,
                                          v1.current_instr.cpu_ops),
         v |-> v1,
         emu |-> v1.current_instr.emu_ops,
         cpu |-> v1.current_instr.cpu_ops]

\* mask_undefined_flags: after MUL, IMUL, DIV, IDIV (0xF6 / 0xF7 with reg
\* extension 4..7) AuxCarry is undefined and is cleared; other flags are kept
mask_undefined_flags(opcode, modrm, flags) ==
    IF opcode \in {246, 247} /\ BitAnd(Shr(modrm, 3), 7) >= 4
    THEN BitAnd(flags, 65535 - 16)
    ELSE flags

\* the registers validate_registers compares, in the order of its tests
ComparedRegs == << "ax", "bx", "cx", "dx", "cs", "ds", "es", "sp", "sp",
                   "bp", "si", "di" >>

validate_registers(vv, regs) ==
    LET ci == vv.current_instr
        emu_flags_masked ==
            IF vv.mask_flags
            THEN mask_undefined_flags(ci.opcode, ci.modrm, ci.regs[1].flags)
            ELSE ci.regs[1].flags
        cpu_flags_masked ==
            IF vv.mask_flags
            THEN mask_undefined_flags(ci.opcode, ci.modrm, regs.flags)
            ELSE regs.flags
    IN  /\ \A k \in DOMAIN ComparedRegs :
              ci.regs[1][ComparedRegs[k]] = regs[ComparedRegs[k]]
        /\ emu_flags_masked = cpu_flags_masked

\* validate_regs, store being the outcome of cpu.store(): the image read
\* back is adjusted and dropped, validate_registers is given regs
validate_regs(vv, regs, store) ==
    IF ~store.ok
    THEN [ret |-> "none", panic |-> "Failed to store registers!"]
    ELSE [ret |-> IF validate_registers(vv, regs)
                  THEN "Ok" ELSE "Err(RegisterMismatch)",
          panic |-> NoPanic]

\* set_regs, load being the outcome of cpu.load(): the register buffer it
\* fills from regs[0], and the panic of the expect on a failed load
set_regs(vv, load) ==
    [reg_buf |-> regs_to_buf(ZeroBuf, vv.current_instr.regs[0]),
     panic |-> IF load.ok THEN NoPanic
               ELSE "validate() error: Load registers failed."]

RECURSIVE prefix_scan(_, _)
\* the opcode scan: the zero-based index of the first byte of instr, from i
\* on, that is no prefix; Len(instr) if there is none
prefix_scan(instr, i) ==
    IF i >= Len(instr) THEN i
    ELSE IF instr[i + 1] \in PrefixBytes THEN prefix_scan(instr, i + 1)
    ELSE i

mem_ops_checked_always(opcode) == TRUE

\* if self.current_instr.opcode != 0x9C
mem_ops_checked(opcode) == opcode # 156

cycles_checked_always(emu_states) == TRUE

\* if emu_states.len() > 0
cycles_checked(emu_states) == Len(emu_states) > 0

NoMem == [called |-> FALSE, discard |-> FALSE, ok |-> TRUE, emu |-> << >>,
          cpu |-> << >>]

NoCyc == [called |-> FALSE, cpu |-> << >>, emu |-> << >>,
          result |-> << TRUE, 0 >>]

\* what a validate_instruction call did: the Result it returned or the
\* panic that ended it, the validator it left, whether the physical CPU was
\* stepped, and the bus-op and cycle comparisons it made
VOut(vv, ret, panic, stepped, mem, cyc) ==
    [v |-> vv, ret |-> ret, panic |-> panic, stepped |-> stepped,
     mem |-> mem, cyc |-> cyc]

\* validate_instruction; step is the outcome of cpu.step() and in_finalize(),
\* checks tells whether the build checks arithmetic overflow.  The step is
\* taken to leave in cpu_ops the bus operations of this instruction and to
\* leave emu_ops as the emulator recorded them.
validate_instruction(vv, instr, has_modrm, regs, emu_states, step, checks) ==
    LET r0 == vv.current_instr.regs[0]
        ip_addr == make_pointer(r0.cs, r0.ip)
        v1 == [vv EXCEPT !.visited = @ \cup {ip_addr}]
        i == prefix_scan(instr, 0)
        v2 == [v1 EXCEPT !.current_instr.opcode = instr[i + 1],
                         !.current_instr.regs[1] = regs]
        v3 == [v2 EXCEPT !.current_instr.modrm =
                            IF has_modrm THEN instr[i + 2] ELSE 0]
        v4 == [v3 EXCEPT !.current_instr.cpu_ops = step.cpu_ops]
        m == validate_mem_ops(v4, step.discard)
        mem == IF mem_ops_checked(v4.current_instr.opcode)
               THEN [called |-> TRUE, discard |-> step.discard, ok |-> m.ok,
                     emu |-> m.emu, cpu |-> m.cpu]
               ELSE NoMem
        v5 == IF mem_ops_checked(v4.current_instr.opcode) THEN m.v ELSE v4
        cqc == correct_queue_counts(step.cpu_states, checks)
        res == validate_cycles(cqc.states, emu_states)
        cyc == IF cycles_checked(emu_states)
               THEN [called |-> TRUE, cpu |-> cqc.states, emu |-> emu_states,
                     result |-> res]
               ELSE NoCyc
    IN  IF Len(instr) = 0
        THEN VOut(vv, "Err(ParameterError)", NoPanic, FALSE, NoMem, NoCyc)
        ELSE IF i >= Len(instr)
        THEN VOut(v1, "none", "index out of bounds", FALSE, NoMem, NoCyc)
        ELSE IF regs.flags = 0
        THEN VOut(v2, "Err(ParameterError)", NoPanic, FALSE, NoMem, NoCyc)
        ELSE IF has_modrm /\ Len(instr) < 2
        THEN VOut(v2, "none",
                  IF checks THEN "attempt to subtract with overflow"
                  ELSE "index out of bounds",
                  FALSE, NoMem, NoCyc)
        ELSE IF has_modrm /\ i > Len(instr) - 2
        THEN VOut(v2, "Err(ParameterError)", NoPanic, FALSE, NoMem, NoCyc)
        ELSE IF v3.current_instr.discard
        THEN VOut(v3, "Ok(Ok)", NoPanic, FALSE, NoMem, NoCyc)
        ELSE IF ~step.ok
        THEN VOut(v3, "Err(CpuError)", NoPanic, TRUE, NoMem, NoCyc)
        ELSE IF mem.called /\ ~mem.ok
        THEN VOut(v5, "Err(MemOpMismatch)", NoPanic, TRUE, mem, NoCyc)
        ELSE IF cyc.called /\ cqc.panic # NoPanic
        THEN VOut(v5, "none", cqc.panic, TRUE, mem, NoCyc)
        ELSE IF cyc.called /\ ~res[1]
        THEN VOut(v5, "Err(CycleMismatch)", NoPanic, TRUE, mem, cyc)
        ELSE VOut(reset_instruction(v5),
                  IF step.finalize THEN "Ok(OkEnd)" ELSE "Ok(Ok)",
                  NoPanic, TRUE, mem, cyc)

\* register images an instruction begins with: one in low memory at
\* 0010:0100 and one in the BIOS at F000:FFF0
LowRegs == [RampRegs EXCEPT !.cs = 16, !.ip = 256]

BiosRegs == [RampRegs EXCEPT !.cs = 61440, !.ip = 65520]

\* register images after an instruction: RampRegs and images differing from
\* it in AX, in SS, in the AuxCarry flag, and one with no flag set at all
AfterRegs ==
    {RampRegs, [RampRegs EXCEPT !.ax = 0], [RampRegs EXCEPT !.ss = 0],
     [RampRegs EXCEPT !.flags = 61462], [RampRegs EXCEPT !.flags = 0]}

\* outcomes of cpu.store()
NoStore == [ok |-> FALSE, regs |-> DefaultRegs]

StoreOutcomes == {NoStore} \cup {[ok |-> TRUE, regs |-> r] : r \in AfterRegs}

\* instruction byte slices: NOP, PUSHF, REP PUSHF, MUL BL, a lone ES prefix
\* and the empty slice
InstrSamples == {<< 144 >>, << 156 >>, << 243, 156 >>, << 246, 227 >>,
                 << 38 >>, << >>}

\* the bus operations of the physical CPU, as the bridge tags them
Physical(ops) == [i \in DOMAIN ops |-> [ops[i] EXCEPT !.flags = MOF_PI8088]]

\* physical bus-op sequences sampled against the emulator's ops: the same
\* operations, the same without the first, with a stray leading CodeRead,
\* and with the first data byte changed
CpuOpsCandidates(ops) ==
    {Physical(ops),
     << BusOp("CodeRead", 512, 144, MOF_PI8088) >> \o Physical(ops)}
    \cup (IF ops = << >> THEN {}
          ELSE {Tail(Physical(ops)),
                [Physical(ops) EXCEPT ![1].data = 255 - @]})

CycleOf(q_op, q_len) == [q_op |-> q_op, q_len |-> q_len, data |-> 144]

\* sampled pairs of the cycle states the step returns and the cycle states
\* the emulator passes: none at all; none from the emulator; equal after
\* correction; differing at index 0; differing at index 1; differing in
\* length; a correction that decrements a zero q_len
CyclePairs ==
    {<< << >>, << >> >>,
     << << CycleOf("Idle", 2) >>, << >> >>,
     << << CycleOf("Idle", 2), CycleOf("First", 2) >>,
        << CycleOf("Idle", 1), CycleOf("First", 2) >> >>,
     << << CycleOf("Idle", 2), CycleOf("First", 2) >>,
        << CycleOf("Idle", 2), CycleOf("First", 2) >> >>,
     << << CycleOf("Idle", 2), CycleOf("First", 2) >>,
        << CycleOf("Idle", 1), CycleOf("Idle", 2) >> >>,
     << << CycleOf("Idle", 2) >>,
        << CycleOf("Idle", 1), CycleOf("First", 2) >> >>,
     << << CycleOf("Idle", 0), CycleOf("Subsequent", 2) >>,
        << CycleOf("Idle", 0), CycleOf("Subsequent", 2) >> >>}

\* a failed step
NoStep == [ok |-> FALSE, cpu_states |-> << >>, discard |-> FALSE,
           cpu_ops |-> << >>, finalize |-> FALSE]

Stepped(cpu_states, discard, cpu_ops, finalize) ==
    [ok |-> TRUE, cpu_states |-> cpu_states, discard |-> discard,
     cpu_ops |-> cpu_ops, finalize |-> finalize]

\* sampled calls of validate_instruction for a validator whose emulator ops
\* are ops: << emu_states, outcome of cpu.step() and cpu.in_finalize() >>.
\* The step fails; or it returns every sampled bus-op sequence, with and
\* without the discard flag, and cycle states that match; or it returns the
\* emulator's bus ops, or bus ops that differ from them, with every sampled
\* pair of cycle states; or the program ends with this instruction.
StepSamples(ops) ==
    LET match == << CycleOf("Idle", 2), CycleOf("First", 2) >>
        corrected == << CycleOf("Idle", 1), CycleOf("First", 2) >>
    IN  {<< corrected, NoStep >>,
         << corrected, Stepped(match, FALSE, Physical(ops), TRUE) >>}
        \cup {<< corrected, Stepped(match, d, c, FALSE) >> :
                 d \in BOOLEAN, c \in CpuOpsCandidates(ops)}
        \cup {<< p[2], Stepped(p[1], FALSE, c, FALSE) >> :
                 p \in CyclePairs,
                 c \in {Physical(ops),
                        << BusOp("CodeRead", 512, 144, MOF_PI8088) >>
                            \o Physical(ops)}}

\* sampled instruction byte slices with their has_modrm argument: NOP,
\* REP PUSHF, MUL BL
InstrCalls == {<< << 144 >>, FALSE >>, << << 243, 156 >>, FALSE >>,
               << << 246, 227 >>, TRUE >>}

(***************************************************************************)
(* Instruction decoder (cpu_808x/decode.rs).  A flag word is held as the   *)
(* set of its flag bits, `|` being union and a bit test membership; a byte *)
(* queue is the sequence of bytes it will deliver.                         *)
(***************************************************************************)
\* instruction flag bits
I_LOAD_EA == "I_LOAD_EA"
I_REL_JUMP == "I_REL_JUMP"
I_GROUP_DELAY == "I_GROUP_DELAY"
I_HAS_MODRM == "I_HAS_MODRM"
I_USES_MEM == "I_USES_MEM"

\* a row of the decoder's tables
Entry(mnemonic, operand1_template, operand2_template, op_flags) ==
    [mnemonic |-> mnemonic, operand1_template |-> operand1_template,
     operand2_template |-> operand2_template, op_flags |-> op_flags]

\* the prefix flag of a prefix byte, "none" for any other byte
prefix_flag(opcode) ==
    CASE opcode = 38 -> "OPCODE_PREFIX_ES_OVERRIDE"
      [] opcode = 46 -> "OPCODE_PREFIX_CS_OVERRIDE"
      [] opcode = 54 -> "OPCODE_PREFIX_SS_OVERRIDE"
      [] opcode = 62 -> "OPCODE_PREFIX_DS_OVERRIDE"
      [] opcode = 240 -> "OPCODE_PREFIX_LOCK"
      [] opcode = 242 -> "OPCODE_PREFIX_REP1"
      [] opcode = 243 -> "OPCODE_PREFIX_REP2"
      [] OTHER -> "none"

\* the segment override after a prefix byte: only the last one is kept
prefix_segment_override(opcode, op_segment_override) ==
    CASE opcode = 38 -> "ES"
      [] opcode = 46 -> "CS"
      [] opcode = 54 -> "SS"
      [] opcode = 62 -> "DS"
      [] OTHER -> op_segment_override

RECURSIVE decode_prefixes(_, _, _, _)
\* the prefix loop: n bytes read so far, the n+1st being examined
decode_prefixes(bytes, n, op_prefixes, op_segment_override) ==
    LET opcode == bytes[n + 1]
    IN  IF prefix_flag(opcode) = "none"
        THEN [n |-> n, opcode |-> opcode, op_prefixes |-> op_prefixes,
              op_segment_override |-> op_segment_override]
        ELSE decode_prefixes(bytes, n + 1,
                             op_prefixes \cup {prefix_flag(opcode)},
                             prefix_segment_override(opcode,
                                                     op_segment_override))

\* the primary table with the group-delay flag on its rows
decode_primary_group_delay(opcode) ==
    Entry("NOP", "NoOperand", "NoOperand", {I_GROUP_DELAY})

\* the primary opcode table
decode_primary(opcode) ==
    CASE opcode = 0 -> Entry("ADD", "ModRM8", "Register8", {I_LOAD_EA})
      [] opcode = 1 -> Entry("ADD", "ModRM16", "Register16", {I_LOAD_EA})
      [] opcode = 2 -> Entry("ADD", "Register8", "ModRM8", {I_LOAD_EA})
      [] opcode = 3 -> Entry("ADD", "Register16", "ModRM16", {I_LOAD_EA})
      [] opcode = 4 -> Entry("ADD", "FixedRegister8(AL)", "Immediate8", {})
      [] opcode = 5 -> Entry("ADD", "FixedRegister16(AX)", "Immediate16", {})
      [] opcode = 6 -> Entry("PUSH", "FixedRegister16(ES)", "NoOperand", {})
      [] opcode = 7 -> Entry("POP", "FixedRegister16(ES)", "NoOperand", {})
      [] opcode = 8 -> Entry("OR", "ModRM8", "Register8", {I_LOAD_EA})
      [] opcode = 9 -> Entry("OR", "ModRM16", "Register16", {I_LOAD_EA})
      [] opcode = 10 -> Entry("OR", "Register8", "ModRM8", {I_LOAD_EA})
      [] opcode = 11 -> Entry("OR", "Register16", "ModRM16", {I_LOAD_EA})
      [] opcode = 12 -> Entry("OR", "FixedRegister8(AL)", "Immediate8", {})
      [] opcode = 13 -> Entry("OR", "FixedRegister16(AX)", "Immediate16", {})
      [] opcode = 14 -> Entry("PUSH", "FixedRegister16(CS)", "NoOperand", {})
      [] opcode = 15 -> Entry("POP", "FixedRegister16(CS)", "NoOperand", {})
      [] opcode = 16 -> Entry("ADC", "ModRM8", "Register8", {I_LOAD_EA})
      [] opcode = 17 -> Entry("ADC", "ModRM16", "Register16", {I_LOAD_EA})
      [] opcode = 18 -> Entry("ADC", "Register8", "ModRM8", {I_LOAD_EA})
      [] opcode = 19 -> Entry("ADC", "Register16", "ModRM16", {I_LOAD_EA})
      [] opcode = 20 -> Entry("ADC", "FixedRegister8(AL)", "Immediate8", {})
      [] opcode = 21 -> Entry("ADC", "FixedRegister16(AX)", "Immediate16", {})
      [] opcode = 22 -> Entry("PUSH", "FixedRegister16(SS)", "NoOperand", {})
      [] opcode = 23 -> Entry("POP", "FixedRegister16(SS)", "NoOperand", {})
      [] opcode = 24 -> Entry("SBB", "ModRM8", "Register8", {I_LOAD_EA})
      [] opcode = 25 -> Entry("SBB", "ModRM16", "Register16", {I_LOAD_EA})
      [] opcode = 26 -> Entry("SBB", "Register8", "ModRM8", {I_LOAD_EA})
      [] opcode = 27 -> Entry("SBB", "Register16", "ModRM16", {I_LOAD_EA})
      [] opcode = 28 -> Entry("SBB", "FixedRegister8(AL)", "Immediate8", {})
      [] opcode = 29 -> Entry("SBB", "FixedRegister16(AX)", "Immediate16", {})
      [] opcode = 30 -> Entry("PUSH", "FixedRegister16(DS)", "NoOperand", {})
      [] opcode = 31 -> Entry("POP", "FixedRegister16(DS)", "NoOperand", {})
      [] opcode = 32 -> Entry("AND", "ModRM8", "Register8", {I_LOAD_EA})
      [] opcode = 33 -> Entry("AND", "ModRM16", "Register16", {I_LOAD_EA})
      [] opcode = 34 -> Entry("AND", "Register8", "ModRM8", {I_LOAD_EA})
      [] opcode = 35 -> Entry("AND", "Register16", "ModRM16", {I_LOAD_EA})
      [] opcode = 36 -> Entry("AND", "FixedRegister8(AL)", "Immediate8", {})
      [] opcode = 37 -> Entry("AND", "FixedRegister16(AX)", "Immediate16", {})
      [] opcode = 39 -> Entry("DAA", "NoOperand", "NoOperand", {})
      [] opcode = 40 -> Entry("SUB", "ModRM8", "Register8", {I_LOAD_EA})
      [] opcode = 41 -> Entry("SUB", "ModRM16", "Register16", {I_LOAD_EA})
      [] opcode = 42 -> Entry("SUB", "Register8", "ModRM8", {I_LOAD_EA})
      [] opcode = 43 -> Entry("SUB", "Register16", "ModRM16", {I_LOAD_EA})
      [] opcode = 44 -> Entry("SUB", "FixedRegister8(AL)", "Immediate8", {})
      [] opcode = 45 -> Entry("SUB", "FixedRegister16(AX)", "Immediate16", {})
      [] opcode = 47 -> Entry("DAS", "NoOperand", "NoOperand", {})
      [] opcode = 48 -> Entry("XOR", "ModRM8", "Register8", {I_LOAD_EA})
      [] opcode = 49 -> Entry("XOR", "ModRM16", "Register16", {I_LOAD_EA})
      [] opcode = 50 -> Entry("XOR", "Register8", "ModRM8", {I_LOAD_EA})
      [] opcode = 51 -> Entry("XOR", "Register16", "ModRM16", {I_LOAD_EA})
      [] opcode = 52 -> Entry("XOR", "FixedRegister8(AL)", "Immediate8", {})
      [] opcode = 53 -> Entry("XOR", "FixedRegister16(AX)", "Immediate16", {})
      [] opcode = 55 -> Entry("AAA", "NoOperand", "NoOperand", {})
      [] opcode = 56 -> Entry("CMP", "ModRM8", "Register8", {I_LOAD_EA})
      [] opcode = 57 -> Entry("CMP", "ModRM16", "Register16", {I_LOAD_EA})
      [] opcode = 58 -> Entry("CMP", "Register8", "ModRM8", {I_LOAD_EA})
      [] opcode = 59 -> Entry("CMP", "Register16", "ModRM16", {I_LOAD_EA})
      [] opcode = 60 -> Entry("CMP", "FixedRegister8(AL)", "Immediate8", {})
      [] opcode = 61 -> Entry("CMP", "FixedRegister16(AX)", "Immediate16", {})
      [] opcode = 63 -> Entry("AAS", "NoOperand", "NoOperand", {})
      [] opcode \in 64..71 -> Entry("INC", "Register16Encoded", "NoOperand", {})
      [] opcode \in 72..79 -> Entry("DEC", "Register16Encoded", "NoOperand", {})
      [] opcode \in 80..87 -> Entry("PUSH", "Register16Encoded", "NoOperand", {})
      [] opcode \in 88..95 -> Entry("POP", "Register16Encoded", "NoOperand", {})
      [] opcode = 96 -> Entry("JO", "Relative8", "NoOperand", {I_REL_JUMP})
      [] opcode = 97 -> Entry("JNO", "Relative8", "NoOperand", {I_REL_JUMP})
      [] opcode = 98 -> Entry("JB", "Relative8", "NoOperand", {I_REL_JUMP})
      [] opcode = 99 -> Entry("JNB", "Relative8", "NoOperand", {I_REL_JUMP})
      [] opcode = 100 -> Entry("JZ", "Relative8", "NoOperand", {I_REL_JUMP})
      [] opcode = 101 -> Entry("JNZ", "Relative8", "NoOperand", {I_REL_JUMP})
      [] opcode = 102 -> Entry("JBE", "Relative8", "NoOperand", {I_REL_JUMP})
      [] opcode = 103 -> Entry("JNBE", "Relative8", "NoOperand", {I_REL_JUMP})
      [] opcode = 104 -> Entry("JS", "Relative8", "NoOperand", {I_REL_JUMP})
      [] opcode = 105 -> Entry("JNS", "Relative8", "NoOperand", {I_REL_JUMP})
      [] opcode = 106 -> Entry("JP", "Relative8", "NoOperand", {I_REL_JUMP})
      [] opcode = 107 -> Entry("JNP", "Relative8", "NoOperand", {I_REL_JUMP})
      [] opcode = 108 -> Entry("JL", "Relative8", "NoOperand", {I_REL_JUMP})
      [] opcode = 109 -> Entry("JNL", "Relative8", "NoOperand", {I_REL_JUMP})
      [] opcode = 110 -> Entry("JLE", "Relative8", "NoOperand", {I_REL_JUMP})
      [] opcode = 111 -> Entry("JNLE", "Relative8", "NoOperand", {I_REL_JUMP})
      [] opcode = 112 -> Entry("JO", "Relative8", "NoOperand", {I_REL_JUMP})
      [] opcode = 113 -> Entry("JNO", "Relative8", "NoOperand", {I_REL_JUMP})
      [] opcode = 114 -> Entry("JB", "Relative8", "NoOperand", {I_REL_JUMP})
      [] opcode = 115 -> Entry("JNB", "Relative8", "NoOperand", {I_REL_JUMP})
      [] opcode = 116 -> Entry("JZ", "Relative8", "NoOperand", {I_REL_JUMP})
      [] opcode = 117 -> Entry("JNZ", "Relative8", "NoOperand", {I_REL_JUMP})
      [] opcode = 118 -> Entry("JBE", "Relative8", "NoOperand", {I_REL_JUMP})
      [] opcode = 119 -> Entry("JNBE", "Relative8", "NoOperand", {I_REL_JUMP})
      [] opcode = 120 -> Entry("JS", "Relative8", "NoOperand", {I_REL_JUMP})
      [] opcode = 121 -> Entry("JNS", "Relative8", "NoOperand", {I_REL_JUMP})
      [] opcode = 122 -> Entry("JP", "Relative8", "NoOperand", {I_REL_JUMP})
      [] opcode = 123 -> Entry("JNP", "Relative8", "NoOperand", {I_REL_JUMP})
      [] opcode = 124 -> Entry("JL", "Relative8", "NoOperand", {I_REL_JUMP})
      [] opcode = 125 -> Entry("JNL", "Relative8", "NoOperand", {I_REL_JUMP})
      [] opcode = 126 -> Entry("JLE", "Relative8", "NoOperand", {I_REL_JUMP})
      [] opcode = 127 -> Entry("JNLE", "Relative8", "NoOperand", {I_REL_JUMP})
      [] opcode = 132 -> Entry("TEST", "ModRM8", "Register8", {I_LOAD_EA})
      [] opcode = 133 -> Entry("TEST", "ModRM16", "Register16", {I_LOAD_EA})
      [] opcode = 134 -> Entry("XCHG", "Register8", "ModRM8", {I_LOAD_EA})
      [] opcode = 135 -> Entry("XCHG", "Register16", "ModRM16", {I_LOAD_EA})
      [] opcode = 136 -> Entry("MOV", "ModRM8", "Register8", {})
      [] opcode = 137 -> Entry("MOV", "ModRM16", "Register16", {})
      [] opcode = 138 -> Entry("MOV", "Register8", "ModRM8", {I_LOAD_EA})
      [] opcode = 139 -> Entry("MOV", "Register16", "ModRM16", {I_LOAD_EA})
      [] opcode = 140 -> Entry("MOV", "ModRM16", "SegmentRegister", {})
      [] opcode = 141 -> Entry("LEA", "Register16", "ModRM16", {})
      [] opcode = 142 -> Entry("MOV", "SegmentRegister", "ModRM16", {I_LOAD_EA})
      [] opcode = 143 -> Entry("POP", "ModRM16", "NoOperand", {})
      [] opcode = 144 -> Entry("NOP", "NoOperand", "NoOperand", {})
      [] opcode \in 145..151 -> Entry("XCHG", "Register16Encoded", "FixedRegister16(AX)", {})
      [] opcode = 152 -> Entry("CBW", "NoOperand", "NoOperand", {})
      [] opcode = 153 -> Entry("CWD", "NoOperand", "NoOperand", {})
      [] opcode = 154 -> Entry("CALLF", "FarAddress", "NoOperand", {})
      [] opcode = 155 -> Entry("FWAIT", "NoOperand", "NoOperand", {})
      [] opcode = 156 -> Entry("PUSHF", "NoOperand", "NoOperand", {})
      [] opcode = 157 -> Entry("POPF", "NoOperand", "NoOperand", {})
      [] opcode = 158 -> Entry("SAHF", "NoOperand", "NoOperand", {})
      [] opcode = 159 -> Entry("LAHF", "NoOperand", "NoOperand", {})
      [] opcode = 160 -> Entry("MOV", "FixedRegister8(AL)", "Offset8", {})
      [] opcode = 161 -> Entry("MOV", "FixedRegister16(AX)", "Offset16", {})
      [] opcode = 162 -> Entry("MOV", "Offset8", "FixedRegister8(AL)", {})
      [] opcode = 163 -> Entry("MOV", "Offset16", "FixedRegister16(AX)", {})
      [] opcode = 164 -> Entry("MOVSB", "NoOperand", "NoOperand", {})
      [] opcode = 165 -> Entry("MOVSW", "NoOperand", "NoOperand", {})
      [] opcode = 166 -> Entry("CMPSB", "NoOperand", "NoOperand", {})
      [] opcode = 167 -> Entry("CMPSW", "NoOperand", "NoOperand", {})
      [] opcode = 168 -> Entry("TEST", "FixedRegister8(AL)", "Immediate8", {})
      [] opcode = 169 -> Entry("TEST", "FixedRegister16(AX)", "Immediate16", {})
      [] opcode = 170 -> Entry("STOSB", "NoOperand", "NoOperand", {})
      [] opcode = 171 -> Entry("STOSW", "NoOperand", "NoOperand", {})
      [] opcode = 172 -> Entry("LODSB", "NoOperand", "NoOperand", {})
      [] opcode = 173 -> Entry("LODSW", "NoOperand", "NoOperand", {})
      [] opcode = 174 -> Entry("SCASB", "NoOperand", "NoOperand", {})
      [] opcode = 175 -> Entry("SCASW", "NoOperand", "NoOperand", {})
      [] opcode \in 176..183 -> Entry("MOV", "Register8Encoded", "Immediate8", {})
      [] opcode \in 184..191 -> Entry("MOV", "Register16Encoded", "Immediate16", {})
      [] opcode = 192 -> Entry("RETN", "Immediate16", "NoOperand", {})
      [] opcode = 193 -> Entry("RETN", "NoOperand", "NoOperand", {})
      [] opcode = 194 -> Entry("RETN", "Immediate16", "NoOperand", {})
      [] opcode = 195 -> Entry("RETN", "NoOperand", "NoOperand", {})
      [] opcode = 196 -> Entry("LES", "Register16", "ModRM16", {I_LOAD_EA})
      [] opcode = 197 -> Entry("LDS", "Register16", "ModRM16", {I_LOAD_EA})
      [] opcode = 198 -> Entry("MOV", "ModRM8", "Immediate8", {})
      [] opcode = 199 -> Entry("MOV", "ModRM16", "Immediate16", {})
      [] opcode = 200 -> Entry("RETF", "Immediate16", "NoOperand", {})
      [] opcode = 201 -> Entry("RETF", "NoOperand", "NoOperand", {})
      [] opcode = 202 -> Entry("RETF", "Immediate16", "NoOperand", {})
      [] opcode = 203 -> Entry("RETF", "NoOperand", "NoOperand", {})
      [] opcode = 204 -> Entry("INT3", "NoOperand", "NoOperand", {})
      [] opcode = 205 -> Entry("INT", "Immediate8", "NoOperand", {})
      [] opcode = 206 -> Entry("INTO", "NoOperand", "NoOperand", {})
      [] opcode = 207 -> Entry("IRET", "NoOperand", "NoOperand", {})
      [] opcode = 212 -> Entry("AAM", "Immediate8", "NoOperand", {})
      [] opcode = 213 -> Entry("AAD", "Immediate8", "NoOperand", {})
      [] opcode = 214 -> Entry("SALC", "NoOperand", "NoOperand", {})
      [] opcode = 215 -> Entry("XLAT", "NoOperand", "NoOperand", {})
      [] opcode \in 216..223 -> Entry("ESC", "ModRM16", "NoOperand", {I_LOAD_EA})
      [] opcode = 224 -> Entry("LOOPNE", "Relative8", "NoOperand", {I_REL_JUMP})
      [] opcode = 225 -> Entry("LOOPE", "Relative8", "NoOperand", {I_REL_JUMP})
      [] opcode = 226 -> Entry("LOOP", "Relative8", "NoOperand", {I_REL_JUMP})
      [] opcode = 227 -> Entry("JCXZ", "Relative8", "NoOperand", {I_REL_JUMP})
      [] opcode = 228 -> Entry("IN", "FixedRegister8(AL)", "Immediate8", {})
      [] opcode = 229 -> Entry("IN", "FixedRegister16(AX)", "Immediate8", {})
      [] opcode = 230 -> Entry("OUT", "Immediate8", "FixedRegister8(AL)", {})
      [] opcode = 231 -> Entry("OUT", "Immediate8", "FixedRegister16(AX)", {})
      [] opcode = 232 -> Entry("CALL", "Relative16", "NoOperand", {I_REL_JUMP})
      [] opcode = 233 -> Entry("JMP", "Relative16", "NoOperand", {I_REL_JUMP})
      [] opcode = 234 -> Entry("JMPF", "FarAddress", "NoOperand", {})
      [] opcode = 235 -> Entry("JMP", "Relative8", "NoOperand", {I_REL_JUMP})
      [] opcode = 236 -> Entry("IN", "FixedRegister8(AL)", "FixedRegister16(DX)", {})
      [] opcode = 237 -> Entry("IN", "FixedRegister16(AX)", "FixedRegister16(DX)", {})
      [] opcode = 238 -> Entry("OUT", "FixedRegister16(DX)", "FixedRegister8(AL)", {})
      [] opcode = 239 -> Entry("OUT", "FixedRegister16(DX)", "FixedRegister16(AX)", {})
      [] opcode = 241 -> Entry("NOP", "NoOperand", "NoOperand", {})
      [] opcode = 244 -> Entry("HLT", "NoOperand", "NoOperand", {})
      [] opcode = 245 -> Entry("CMC", "NoOperand", "NoOperand", {})
      [] opcode = 248 -> Entry("CLC", "NoOperand", "NoOperand", {})
      [] opcode = 249 -> Entry("STC", "NoOperand", "NoOperand", {})
      [] opcode = 250 -> Entry("CLI", "NoOperand", "NoOperand", {})
      [] opcode = 251 -> Entry("STI", "NoOperand", "NoOperand", {})
      [] opcode = 252 -> Entry("CLD", "NoOperand", "NoOperand", {})
      [] opcode = 253 -> Entry("STD", "NoOperand", "NoOperand", {})
      [] OTHER -> Entry("NoOpcode", "NoTemplate", "NoTemplate", {})

\* the group table emptied: only its fallback arm
decode_group_fallback_only(opcode, op_ext) ==
    Entry("NoOpcode", "NoOperand", "NoOperand", {})

\* the group-extension table, on the opcode and the reg field of the ModR/M
decode_group(opcode, op_ext) ==
    CASE opcode \in {128, 130} /\ op_ext = 0 -> Entry("ADD", "ModRM8", "Immediate8", {I_LOAD_EA})
      [] opcode \in {128, 130} /\ op_ext = 1 -> Entry("OR", "ModRM8", "Immediate8", {I_LOAD_EA})
      [] opcode \in {128, 130} /\ op_ext = 2 -> Entry("ADC", "ModRM8", "Immediate8", {I_LOAD_EA})
      [] opcode \in {128, 130} /\ op_ext = 3 -> Entry("SBB", "ModRM8", "Immediate8", {I_LOAD_EA})
      [] opcode \in {128, 130} /\ op_ext = 4 -> Entry("AND", "ModRM8", "Immediate8", {I_LOAD_EA})
      [] opcode \in {128, 130} /\ op_ext = 5 -> Entry("SUB", "ModRM8", "Immediate8", {I_LOAD_EA})
      [] opcode \in {128, 130} /\ op_ext = 6 -> Entry("XOR", "ModRM8", "Immediate8", {I_LOAD_EA})
      [] opcode \in {128, 130} /\ op_ext = 7 -> Entry("CMP", "ModRM8", "Immediate8", {I_LOAD_EA})
      [] opcode = 129 /\ op_ext = 0 -> Entry("ADD", "ModRM16", "Immediate16", {I_LOAD_EA})
      [] opcode = 129 /\ op_ext = 1 -> Entry("OR", "ModRM16", "Immediate16", {I_LOAD_EA})
      [] opcode = 129 /\ op_ext = 2 -> Entry("ADC", "ModRM16", "Immediate16", {I_LOAD_EA})
      [] opcode = 129 /\ op_ext = 3 -> Entry("SBB", "ModRM16", "Immediate16", {I_LOAD_EA})
      [] opcode = 129 /\ op_ext = 4 -> Entry("AND", "ModRM16", "Immediate16", {I_LOAD_EA})
      [] opcode = 129 /\ op_ext = 5 -> Entry("SUB", "ModRM16", "Immediate16", {I_LOAD_EA})
      [] opcode = 129 /\ op_ext = 6 -> Entry("XOR", "ModRM16", "Immediate16", {I_LOAD_EA})
      [] opcode = 129 /\ op_ext = 7 -> Entry("CMP", "ModRM16", "Immediate16", {I_LOAD_EA})
      [] opcode = 131 /\ op_ext = 0 -> Entry("ADD", "ModRM16", "Immediate8SignExtended", {I_LOAD_EA})
      [] opcode = 131 /\ op_ext = 1 -> Entry("OR", "ModRM16", "Immediate8SignExtended", {I_LOAD_EA})
      [] opcode = 131 /\ op_ext = 2 -> Entry("ADC", "ModRM16", "Immediate8SignExtended", {I_LOAD_EA})
      [] opcode = 131 /\ op_ext = 3 -> Entry("SBB", "ModRM16", "Immediate8SignExtended", {I_LOAD_EA})
      [] opcode = 131 /\ op_ext = 4 -> Entry("AND", "ModRM16", "Immediate8SignExtended", {I_LOAD_EA})
      [] opcode = 131 /\ op_ext = 5 -> Entry("SUB", "ModRM16", "Immediate8SignExtended", {I_LOAD_EA})
      [] opcode = 131 /\ op_ext = 6 -> Entry("XOR", "ModRM16", "Immediate8SignExtended", {I_LOAD_EA})
      [] opcode = 131 /\ op_ext = 7 -> Entry("CMP", "ModRM16", "Immediate8SignExtended", {I_LOAD_EA})
      [] opcode = 208 /\ op_ext = 0 -> Entry("ROL", "ModRM8", "NoOperand", {I_LOAD_EA})
      [] opcode = 208 /\ op_ext = 1 -> Entry("ROR", "ModRM8", "NoOperand", {I_LOAD_EA})
      [] opcode = 208 /\ op_ext = 2 -> Entry("RCL", "ModRM8", "NoOperand", {I_LOAD_EA})
      [] opcode = 208 /\ op_ext = 3 -> Entry("RCR", "ModRM8", "NoOperand", {I_LOAD_EA})
      [] opcode = 208 /\ op_ext = 4 -> Entry("SHL", "ModRM8", "NoOperand", {I_LOAD_EA})
      [] opcode = 208 /\ op_ext = 5 -> Entry("SHR", "ModRM8", "NoOperand", {I_LOAD_EA})
      [] opcode = 208 /\ op_ext = 6 -> Entry("SETMO", "ModRM8", "NoOperand", {I_LOAD_EA})
      [] opcode = 208 /\ op_ext = 7 -> Entry("SAR", "ModRM8", "NoOperand", {I_LOAD_EA})
      [] opcode = 209 /\ op_ext = 0 -> Entry("ROL", "ModRM16", "NoOperand", {I_LOAD_EA})
      [] opcode = 209 /\ op_ext = 1 -> Entry("ROR", "ModRM16", "NoOperand", {I_LOAD_EA})
      [] opcode = 209 /\ op_ext = 2 -> Entry("RCL", "ModRM16", "NoOperand", {I_LOAD_EA})
      [] opcode = 209 /\ op_ext = 3 -> Entry("RCR", "ModRM16", "NoOperand", {I_LOAD_EA})
      [] opcode = 209 /\ op_ext = 4 -> Entry("SHL", "ModRM16", "NoOperand", {I_LOAD_EA})
      [] opcode = 209 /\ op_ext = 5 -> Entry("SHR", "ModRM16", "NoOperand", {I_LOAD_EA})
      [] opcode = 209 /\ op_ext = 6 -> Entry("SETMO", "ModRM16", "NoOperand", {I_LOAD_EA})
      [] opcode = 209 /\ op_ext = 7 -> Entry("SAR", "ModRM16", "NoOperand", {I_LOAD_EA})
      [] opcode = 210 /\ op_ext = 0 -> Entry("ROL", "ModRM8", "FixedRegister8(CL)", {I_LOAD_EA})
      [] opcode = 210 /\ op_ext = 1 -> Entry("ROR", "ModRM8", "FixedRegister8(CL)", {I_LOAD_EA})
      [] opcode = 210 /\ op_ext = 2 -> Entry("RCL", "ModRM8", "FixedRegister8(CL)", {I_LOAD_EA})
      [] opcode = 210 /\ op_ext = 3 -> Entry("RCR", "ModRM8", "FixedRegister8(CL)", {I_LOAD_EA})
      [] opcode = 210 /\ op_ext = 4 -> Entry("SHL", "ModRM8", "FixedRegister8(CL)", {I_LOAD_EA})
      [] opcode = 210 /\ op_ext = 5 -> Entry("SHR", "ModRM8", "FixedRegister8(CL)", {I_LOAD_EA})
      [] opcode = 210 /\ op_ext = 6 -> Entry("SETMOC", "ModRM8", "FixedRegister8(CL)", {I_LOAD_EA})
      [] opcode = 210 /\ op_ext = 7 -> Entry("SAR", "ModRM8", "FixedRegister8(CL)", {I_LOAD_EA})
      [] opcode = 211 /\ op_ext = 0 -> Entry("ROL", "ModRM16", "FixedRegister8(CL)", {I_LOAD_EA})
      [] opcode = 211 /\ op_ext = 1 -> Entry("ROR", "ModRM16", "FixedRegister8(CL)", {I_LOAD_EA})
      [] opcode = 211 /\ op_ext = 2 -> Entry("RCL", "ModRM16", "FixedRegister8(CL)", {I_LOAD_EA})
      [] opcode = 211 /\ op_ext = 3 -> Entry("RCR", "ModRM16", "FixedRegister8(CL)", {I_LOAD_EA})
      [] opcode = 211 /\ op_ext = 4 -> Entry("SHL", "ModRM16", "FixedRegister8(CL)", {I_LOAD_EA})
      [] opcode = 211 /\ op_ext = 5 -> Entry("SHR", "ModRM16", "FixedRegister8(CL)", {I_LOAD_EA})
      [] opcode = 211 /\ op_ext = 6 -> Entry("SETMOC", "ModRM16", "FixedRegister8(CL)", {I_LOAD_EA})
      [] opcode = 211 /\ op_ext = 7 -> Entry("SAR", "ModRM16", "FixedRegister8(CL)", {I_LOAD_EA})
      [] opcode = 246 /\ op_ext = 0 -> Entry("TEST", "ModRM8", "Immediate8", {I_LOAD_EA, I_GROUP_DELAY})
      [] opcode = 246 /\ op_ext = 1 -> Entry("TEST", "ModRM8", "Immediate8", {I_LOAD_EA, I_GROUP_DELAY})
      [] opcode = 246 /\ op_ext = 2 -> Entry("NOT", "ModRM8", "NoOperand", {I_LOAD_EA, I_GROUP_DELAY})
      [] opcode = 246 /\ op_ext = 3 -> Entry("NEG", "ModRM8", "NoOperand", {I_LOAD_EA, I_GROUP_DELAY})
      [] opcode = 246 /\ op_ext = 4 -> Entry("MUL", "ModRM8", "NoOperand", {I_LOAD_EA, I_GROUP_DELAY})
      [] opcode = 246 /\ op_ext = 5 -> Entry("IMUL", "ModRM8", "NoOperand", {I_LOAD_EA, I_GROUP_DELAY})
      [] opcode = 246 /\ op_ext = 6 -> Entry("DIV", "ModRM8", "NoOperand", {I_LOAD_EA, I_GROUP_DELAY})
      [] opcode = 246 /\ op_ext = 7 -> Entry("IDIV", "ModRM8", "NoOperand", {I_LOAD_EA, I_GROUP_DELAY})
      [] opcode = 247 /\ op_ext = 0 -> Entry("TEST", "ModRM16", "Immediate16", {I_LOAD_EA, I_GROUP_DELAY})
      [] opcode = 247 /\ op_ext = 1 -> Entry("TEST", "ModRM16", "Immediate16", {I_LOAD_EA, I_GROUP_DELAY})
      [] opcode = 247 /\ op_ext = 2 -> Entry("NOT", "ModRM16", "NoOperand", {I_LOAD_EA, I_GROUP_DELAY})
      [] opcode = 247 /\ op_ext = 3 -> Entry("NEG", "ModRM16", "NoOperand", {I_LOAD_EA, I_GROUP_DELAY})
      [] opcode = 247 /\ op_ext = 4 -> Entry("MUL", "ModRM16", "NoOperand", {I_LOAD_EA, I_GROUP_DELAY})
      [] opcode = 247 /\ op_ext = 5 -> Entry("IMUL", "ModRM16", "NoOperand", {I_LOAD_EA, I_GROUP_DELAY})
      [] opcode = 247 /\ op_ext = 6 -> Entry("DIV", "ModRM16", "NoOperand", {I_LOAD_EA, I_GROUP_DELAY})
      [] opcode = 247 /\ op_ext = 7 -> Entry("IDIV", "ModRM16", "NoOperand", {I_LOAD_EA, I_GROUP_DELAY})
      [] opcode = 254 /\ op_ext = 0 -> Entry("INC", "ModRM8", "NoOperand", {I_LOAD_EA, I_GROUP_DELAY})
      [] opcode = 254 /\ op_ext = 1 -> Entry("DEC", "ModRM8", "NoOperand", {I_LOAD_EA, I_GROUP_DELAY})
      [] opcode = 254 /\ op_ext = 2 -> Entry("CALL", "ModRM8", "NoOperand", {I_LOAD_EA, I_GROUP_DELAY})
      [] opcode = 254 /\ op_ext = 3 -> Entry("CALLF", "ModRM8", "NoOperand", {I_LOAD_EA, I_GROUP_DELAY})
      [] opcode = 254 /\ op_ext = 4 -> Entry("JMP", "ModRM8", "NoOperand", {I_LOAD_EA, I_GROUP_DELAY})
      [] opcode = 254 /\ op_ext = 5 -> Entry("JMPF", "ModRM8", "NoOperand", {I_LOAD_EA, I_GROUP_DELAY})
      [] opcode = 254 /\ op_ext = 6 -> Entry("PUSH", "ModRM8", "NoOperand", {I_LOAD_EA, I_GROUP_DELAY})
      [] opcode = 254 /\ op_ext = 7 -> Entry("PUSH", "ModRM8", "NoOperand", {I_LOAD_EA, I_GROUP_DELAY})
      [] opcode = 255 /\ op_ext = 0 -> Entry("INC", "ModRM16", "NoOperand", {I_LOAD_EA, I_GROUP_DELAY})
      [] opcode = 255 /\ op_ext = 1 -> Entry("DEC", "ModRM16", "NoOperand", {I_LOAD_EA, I_GROUP_DELAY})
      [] opcode = 255 /\ op_ext = 2 -> Entry("CALL", "ModRM16", "NoOperand", {I_LOAD_EA, I_GROUP_DELAY})
      [] opcode = 255 /\ op_ext = 3 -> Entry("CALLF", "ModRM16", "NoOperand", {I_LOAD_EA, I_GROUP_DELAY})
      [] opcode = 255 /\ op_ext = 4 -> Entry("JMP", "ModRM16", "NoOperand", {I_LOAD_EA, I_GROUP_DELAY})
      [] opcode = 255 /\ op_ext = 5 -> Entry("JMPF", "ModRM16", "NoOperand", {I_LOAD_EA, I_GROUP_DELAY})
      [] opcode = 255 /\ op_ext = 6 -> Entry("PUSH", "ModRM16", "NoOperand", {I_LOAD_EA, I_GROUP_DELAY})
      [] opcode = 255 /\ op_ext = 7 -> Entry("PUSH", "ModRM16", "NoOperand", {I_LOAD_EA, I_GROUP_DELAY})
      [] OTHER -> Entry("NoOpcode", "NoOperand", "NoOperand", {})

\* a displacement: its width and its signed value
Displacement(kind, val) == [kind |-> kind, val |-> val]

NoDisplacement == Displacement("NoDisp", 0)

\* Displacement::get_u16: the signed value reinterpreted as a u16
get_u16(disp) == disp.val % 65536

\* an 8-bit and a 16-bit pattern read as a signed integer (`as i8`, `as i16`)
AsI8(x) == IF x >= 128 THEN x - 256 ELSE x
AsI16(x) == IF x >= 32768 THEN x - 65536 ELSE x

\* the little-endian word at zero-based position pos of bytes
WordAt(bytes, pos) == bytes[pos + 1] + 256 * bytes[pos + 2]

\* the number of displacement bytes that follow a ModR/M byte
DispLen(b_mod, b_rm) ==
    IF b_mod = 0 /\ b_rm = 6 THEN 2
    ELSE IF b_mod = 1 THEN 1
    ELSE IF b_mod = 2 THEN 2
    ELSE 0

\* ModRmByte::read: the ModR/M byte at zero-based position pos of bytes with
\* its displacement, and the number of bytes read
ModRmByte_read(bytes, pos) ==
    LET byte == bytes[pos + 1]
        b_mod == byte \div 64
        b_rm == byte % 8
        n == DispLen(b_mod, b_rm)
        disp == IF n = 0 THEN NoDisplacement
                ELSE IF n = 1 THEN Displacement("Disp8", AsI8(bytes[pos + 2]))
                ELSE Displacement("Disp16", AsI16(WordAt(bytes, pos + 1)))
    IN  [modrm |-> [b_mod |-> b_mod, b_reg |-> (byte \div 8) % 8,
                    b_rm |-> b_rm, disp |-> disp],
         modrm_len |-> 1 + n]

\* the ModR/M an instruction without one carries
ModRmByte_default ==
    [b_mod |-> 0, b_reg |-> 0, b_rm |-> 0, disp |-> NoDisplacement]

get_op_extension(modrm) == modrm.b_reg

\* the addressing modes by rm field, for mod = 00, 01 and 10
ModeNames ==
    << << "BxSi", "BxDi", "BpSi", "BpDi", "Si", "Di", "Disp16", "Bx" >>,
       << "BxSiDisp8", "BxDiDisp8", "BpSiDisp8", "BpDiDisp8", "SiDisp8",
          "DiDisp8", "BpDisp8", "BxDisp8" >>,
       << "BxSiDisp16", "BxDiDisp16", "BpSiDisp16", "BpDiDisp16", "SiDisp16",
          "DiDisp16", "BpDisp16", "BxDisp16" >> >>

\* an AddressingMode value: the variant and the displacement it carries
AddressingMode(mode, disp) == [mode |-> mode, disp |-> disp]

get_addressing_mode(modrm) ==
    IF modrm.b_mod = 3 THEN AddressingMode("RegisterMode", NoDisplacement)
    ELSE AddressingMode(ModeNames[modrm.b_mod + 1][modrm.b_rm + 1], modrm.disp)

Register8Names == << "AL", "CL", "DL", "BL", "AH", "CH", "DH", "BH" >>
Register16Names == << "AX", "CX", "DX", "BX", "SP", "BP", "SI", "DI" >>
SegmentRegisterNames == << "ES", "CS", "SS", "DS" >>

\* an OperandType value: its variant with the register, addressing mode or
\* peeked value the variant carries (0 / "none" where it carries none)
Operand(kind, reg, mode, val, seg) ==
    [kind |-> kind, reg |-> reg, mode |-> mode, val |-> val, seg |-> seg]

NoMode == AddressingMode("none", NoDisplacement)

OperandType_NoOperand == Operand("NoOperand", "none", NoMode, 0, 0)

\* the register a FixedRegister8 / FixedRegister16 template names
FixedRegister(op_template) ==
    CASE op_template = "FixedRegister8(AL)" -> "AL"
      [] op_template = "FixedRegister8(CL)" -> "CL"
      [] op_template = "FixedRegister16(AX)" -> "AX"
      [] op_template = "FixedRegister16(DX)" -> "DX"
      [] op_template = "FixedRegister16(ES)" -> "ES"
      [] op_template = "FixedRegister16(CS)" -> "CS"
      [] op_template = "FixedRegister16(SS)" -> "SS"
      [] op_template = "FixedRegister16(DS)" -> "DS"

FixedRegister8Templates == {"FixedRegister8(AL)", "FixedRegister8(CL)"}

FixedRegister16Templates ==
    {"FixedRegister16(AX)", "FixedRegister16(DX)", "FixedRegister16(ES)",
     "FixedRegister16(CS)", "FixedRegister16(SS)", "FixedRegister16(DS)"}

\* match_op: the operand a template yields, its size, and the bytes it adds
\* to the instruction size.  Immediates are peeked at zero-based position
\* pos of bytes, the queue's read position, and not consumed.
match_op(op_template, modrm, opcode, bytes, pos) ==
    LET addr_mode == get_addressing_mode(modrm)
        R(type, size, n) == [type |-> type, size |-> size, bytes |-> n]
    IN  CASE op_template = "ModRM8" ->
               R(IF addr_mode.mode = "RegisterMode"
                 THEN Operand("Register8", Register8Names[modrm.b_rm + 1],
                              NoMode, 0, 0)
                 ELSE Operand("AddressingMode", "none", addr_mode, 0, 0),
                 "Operand8", 0)
          [] op_template = "ModRM16" ->
               R(IF addr_mode.mode = "RegisterMode"
                 THEN Operand("Register16", Register16Names[modrm.b_rm + 1],
                              NoMode, 0, 0)
                 ELSE Operand("AddressingMode", "none", addr_mode, 0, 0),
                 "Operand16", 0)
          [] op_template = "Register8" ->
               R(Operand("Register8", Register8Names[modrm.b_reg + 1],
                         NoMode, 0, 0), "Operand8", 0)
          [] op_template = "Register16" ->
               R(Operand("Register16", Register16Names[modrm.b_reg + 1],
                         NoMode, 0, 0), "Operand16", 0)
          [] op_template = "SegmentRegister" ->
               R(Operand("Register16",
                         SegmentRegisterNames[(modrm.b_reg % 4) + 1],
                         NoMode, 0, 0), "Operand16", 0)
          [] op_template = "Register8Encoded" ->
               R(Operand("Register8", Register8Names[(opcode % 8) + 1],
                         NoMode, 0, 0), "Operand8", 0)
          [] op_template = "Register16Encoded" ->
               R(Operand("Register16", Register16Names[(opcode % 8) + 1],
                         NoMode, 0, 0), "Operand16", 0)
          [] op_template = "Immediate8" ->
               R(Operand("Immediate8", "none", NoMode, bytes[pos + 1], 0),
                 "Operand8", 1)
          [] op_template = "Immediate16" ->
               R(Operand("Immediate16", "none", NoMode, WordAt(bytes, pos), 0),
                 "Operand16", 2)
          [] op_template = "Immediate8SignExtended" ->
               R(Operand("Immediate8s", "none", NoMode,
                         AsI8(bytes[pos + 1]), 0), "Operand8", 1)
          [] op_template = "Relative8" ->
               R(Operand("Relative8", "none", NoMode,
                         AsI8(bytes[pos + 1]), 0), "Operand8", 1)
          [] op_template = "Relative16" ->
               R(Operand("Relative16", "none", NoMode,
                         AsI16(WordAt(bytes, pos)), 0), "Operand16", 2)
          [] op_template = "Offset8" ->
               R(Operand("Offset8", "none", NoMode, WordAt(bytes, pos), 0),
                 "Operand8", 2)
          [] op_template = "Offset16" ->
               R(Operand("Offset16", "none", NoMode, WordAt(bytes, pos), 0),
                 "Operand16", 2)
          [] op_template \in FixedRegister8Templates ->
               R(Operand("Register8", FixedRegister(op_template),
                         NoMode, 0, 0), "Operand8", 0)
          [] op_template \in FixedRegister16Templates ->
               R(Operand("Register16", FixedRegister(op_template),
                         NoMode, 0, 0), "Operand16", 0)
          [] op_template = "FarAddress" ->
               R(Operand("FarAddress", "none", NoMode, WordAt(bytes, pos),
                         WordAt(bytes, pos + 2)), "NoSize", 4)
          [] OTHER -> R(OperandType_NoOperand, "NoOperand", 0)

\* does the template need the ModR/M byte
load_modrm(op_template) ==
    op_template \in {"ModRM8", "ModRM16", "Register8", "Register16"}

\* an Instruction value
Instruction(opcode, flags, prefixes, size, mnemonic, seg_override, o1, o2) ==
    [opcode |-> opcode, flags |-> flags, prefixes |-> prefixes,
     address |-> 0, size |-> size, mnemonic |-> mnemonic,
     segment_override |-> seg_override,
     operand1_type |-> o1.type, operand1_size |-> o1.size,
     operand2_type |-> o2.type, operand2_size |-> o2.size]

\* the operand of a template slot that match_op is not called for
Unmatched ==
    [type |-> OperandType_NoOperand, size |-> "NoOperand", bytes |-> 0]

\* the instruction before anything is decoded
NoInstruction ==
    Instruction(0, {}, {}, 0, "NoOpcode", "None", Unmatched, Unmatched)

\* Cpu::decode on the byte queue bytes: Ok(i) or Err(UnsupportedOpcode(err)),
\* with the number of bytes read (not peeked) from the queue
decode(bytes) ==
    LET p == decode_prefixes(bytes, 0, {}, "None")
        opcode == p.opcode
        t == decode_primary(opcode)
        in_group == t.mnemonic = "NoOpcode"
        rd == ModRmByte_read(bytes, p.n + 1)
        g == decode_group(opcode, get_op_extension(rd.modrm))
        e == IF in_group THEN [g EXCEPT !.op_flags = @ \cup {I_HAS_MODRM}]
             ELSE t
        late == /\ ~in_group
                /\ \/ load_modrm(e.operand1_template)
                   \/ load_modrm(e.operand2_template)
        loaded_modrm == in_group \/ late
        modrm == IF loaded_modrm THEN rd.modrm ELSE ModRmByte_default
        modrm_len == IF loaded_modrm THEN rd.modrm_len ELSE 0
        pos == p.n + 1 + modrm_len
        o1 == IF e.operand1_template = "NoTemplate" THEN Unmatched
              ELSE match_op(e.operand1_template, modrm, opcode, bytes, pos)
        o2 == IF e.operand2_template = "NoTemplate" THEN Unmatched
              ELSE match_op(e.operand2_template, modrm, opcode, bytes, pos)
        uses_mem == \/ o1.type.kind = "AddressingMode"
                    \/ o2.type.kind = "AddressingMode"
        op_flags == e.op_flags
                      \cup (IF late THEN {I_HAS_MODRM} ELSE {})
                      \cup (IF uses_mem THEN {I_USES_MEM} ELSE {})
        size == 1 + p.n + modrm_len + o1.bytes + o2.bytes
        i == Instruction(opcode, op_flags, p.op_prefixes, size, e.mnemonic,
                         p.op_segment_override, o1, o2)
    IN  IF e.mnemonic = "InvalidOpcode"
        THEN [called |-> TRUE, ok |-> FALSE, err |-> opcode,
              i |-> NoInstruction, read |-> pos]
        ELSE [called |-> TRUE, ok |-> TRUE, err |-> 0, i |-> i, read |-> pos]

\* no decode call has been made
NoDecode ==
    [called |-> FALSE, ok |-> FALSE, err |-> 0, i |-> NoInstruction,
     read |-> 0]

(***************************************************************************)
(* Operand access (cpu_808x/addressing.rs): the bytes each routine fetches *)
(* from the instruction queue.                                             *)
(***************************************************************************)
read_operand8_offset_byte(operand) ==
    IF operand.kind \in {"Immediate8", "Immediate8s", "Relative8", "Offset8"}
    THEN 1 ELSE 0

\* read_operand8: q_read_u8 / q_read_i8 for an immediate or relative byte,
\* q_read_u16 for the offset of a direct byte operand
read_operand8(operand) ==
    CASE operand.kind \in {"Immediate8", "Immediate8s", "Relative8"} -> 1
      [] operand.kind = "Offset8" -> 2
      [] OTHER -> 0

\* read_operand16: q_read_u16 / q_read_i16
read_operand16(operand) ==
    CASE operand.kind \in {"Immediate16", "Relative16", "Offset16"} -> 2
      [] OTHER -> 0

\* read_operand_faraddr: four biu_queue_read calls
read_operand_faraddr == 4

\* write_operand8: q_read_u16 for the offset of a direct byte operand
write_operand8(operand) ==
    CASE operand.kind = "Offset8" -> 2
      [] OTHER -> 0

\* write_operand16: q_read_u16 for the offset of a direct word operand
write_operand16(operand) ==
    CASE operand.kind = "Offset16" -> 2
      [] OTHER -> 0

\* the operand kinds an instruction only reads
ReadOnlyKinds ==
    {"Immediate8", "Immediate8s", "Immediate16", "Relative8", "Relative16"}

\* the access the instruction's execution makes to an operand: the 8-bit
\* routines for a byte operand, the 16-bit ones for a word operand,
\* read_operand_faraddr for a far address; immediates are never written
Executes(fn, type, size) ==
    CASE fn = "read_operand8" -> size = "Operand8"
      [] fn = "read_operand16" -> size = "Operand16"
      [] fn = "write_operand8" ->
             size = "Operand8" /\ type.kind \notin ReadOnlyKinds
      [] fn = "write_operand16" ->
             size = "Operand16" /\ type.kind \notin ReadOnlyKinds
      [] fn = "read_operand_faraddr" -> type.kind = "FarAddress"

\* opcode prefixes, ModR/M bytes and the bytes behind them, sampled: no
\* prefix and an ES override; mod 00 with a direct address, mod 01, mod 11,
\* each with every reg field
PrefixSamples == {<< >>, << 38 >>}

ModRmSamples == {b_mod * 64 + b_reg * 8 + b_rm :
                    b_mod \in {0, 1, 3}, b_reg \in 0..7, b_rm \in {6}}

CodeTail == << 254, 18, 120, 134 >>

\* the byte queues decoded: every opcode byte behind each sampled prefix
DecodeSamples ==
    {p \o << opcode, m >> \o CodeTail :
        p \in PrefixSamples, opcode \in 0..255, m \in ModRmSamples}

(***************************************************************************)
(* Effective addresses and far pointers (cpu_808x/addressing.rs).  The bus *)
(* is not modelled: a word read from memory is known by the linear address *)
(* handed to biu_read_u16.                                                 *)
(***************************************************************************)
wrapping_add_unbounded(a, b) == a + b

\* u16::wrapping_add
wrapping_add(a, b) == (a + b) % 65536

\* the segment a data access uses under a segment override prefix, seg_default
\* without one
base_segment(segment_override, seg_default) ==
    IF segment_override = "None" THEN seg_default ELSE segment_override

\* calc_effective_address: segment value, segment and offset of the mode's
\* effective address, or a panic for RegisterMode.  c holds the segment
\* registers, g the registers bx, si, di and bp.
calc_effective_address(c, g, mode, segment_override) ==
    LET segment_base_ds == base_segment(segment_override, "DS")
        segment_base_ss == base_segment(segment_override, "SS")
        disp == get_u16(mode.disp)
        DS(offset) == [seg_val |-> segment_val(c, segment_base_ds),
                       seg |-> segment_base_ds, offset |-> offset,
                       panic |-> NoPanic]
        SS(offset) == [seg_val |-> segment_val(c, segment_base_ss),
                       seg |-> segment_base_ss, offset |-> offset,
                       panic |-> NoPanic]
        m == mode.mode
    IN  CASE m = "BxSi" -> DS(wrapping_add(g.bx, g.si))
          [] m = "BxDi" -> DS(wrapping_add(g.bx, g.di))
          [] m = "BpSi" -> SS(wrapping_add(g.bp, g.si))
          [] m = "BpDi" -> SS(wrapping_add(g.bp, g.di))
          [] m = "Si" -> DS(g.si)
          [] m = "Di" -> DS(g.di)
          [] m = "Disp16" -> DS(disp)
          [] m = "Bx" -> DS(g.bx)
          [] m \in {"BxSiDisp8", "BxSiDisp16"} ->
               DS(wrapping_add(g.bx, wrapping_add(g.si, disp)))
          [] m \in {"BxDiDisp8", "BxDiDisp16"} ->
               DS(wrapping_add(g.bx, wrapping_add(g.di, disp)))
          [] m \in {"BpSiDisp8", "BpSiDisp16"} ->
               SS(wrapping_add(g.bp, wrapping_add(g.si, disp)))
          [] m \in {"BpDiDisp8", "BpDiDisp16"} ->
               SS(wrapping_add(g.bp, wrapping_add(g.di, disp)))
          [] m \in {"SiDisp8", "SiDisp16"} -> DS(wrapping_add(g.si, disp))
          [] m \in {"DiDisp8", "DiDisp16"} -> DS(wrapping_add(g.di, disp))
          [] m \in {"BpDisp8", "BpDisp16"} -> SS(wrapping_add(g.bp, disp))
          [] m \in {"BxDisp8", "BxDisp16"} -> DS(wrapping_add(g.bx, disp))
          [] m = "RegisterMode" ->
               [seg_val |-> 0, seg |-> "None", offset |-> 0,
                panic |-> "Can't calculate EA for register"]

\* a word that was not read from memory
NotRead == -1

\* the result of an addressing call: the effective address it calculated,
\* the linear addresses the offset and segment words it returned were read
\* from (NotRead for a word that was not read), and last_ea and ea_opr after
\* the call
EaOut(fn, r, returned, offset_from, segment_from, last_ea, ea_opr) ==
    [fn |-> fn, seg_val |-> r.seg_val, seg |-> r.seg, offset |-> r.offset,
     panic |-> r.panic, returned |-> returned, offset_from |-> offset_from,
     segment_from |-> segment_from, last_ea |-> last_ea, ea_opr |-> ea_opr]

\* no effective address
NoEa == [seg_val |-> 0, seg |-> "None", offset |-> 0, panic |-> NoPanic]

\* load_operand for a word operand: the word at the effective address goes
\* to ea_opr, if the instruction loads its EA and has a memory operand
load_operand(c, g, e) ==
    LET r == calc_effective_address(c, g, e.i.operand.mode,
                                    e.i.segment_override)
        flat_addr == calc_linear_address_seg(c, r.seg, r.offset)
    IN  IF I_LOAD_EA \notin e.i.flags \/ e.i.operand.kind # "AddressingMode"
        THEN EaOut("load_operand", NoEa, "none", NotRead, NotRead,
                   e.last_ea, e.ea_opr)
        ELSE IF r.panic # NoPanic
        THEN EaOut("load_operand", r, "none", NotRead, NotRead,
                   e.last_ea, e.ea_opr)
        ELSE EaOut("load_operand", r, "none", flat_addr, NotRead,
                   r.offset, flat_addr)

\* read_operand_farptr: Some((segment, offset)) for a memory operand, the
\* offset being ea_opr; for a register operand both words read at last_ea
read_operand_farptr(c, e, g, operand, seg_override) ==
    LET r == calc_effective_address(c, g, operand.mode, seg_override)
        flat_addr == calc_linear_address(r.seg_val, r.offset)
        segment_value_base_ds ==
            segment_val(c, base_segment(e.i.segment_override, "DS"))
    IN  CASE operand.kind = "AddressingMode" ->
               IF r.panic # NoPanic
               THEN EaOut("read_operand_farptr", r, "none", NotRead, NotRead,
                          e.last_ea, e.ea_opr)
               ELSE EaOut("read_operand_farptr", r, "Some", e.ea_opr,
                          flat_addr + 2, r.offset, e.ea_opr)
          [] operand.kind = "Register16" ->
               EaOut("read_operand_farptr", NoEa, "Some",
                     calc_linear_address(segment_value_base_ds, e.last_ea),
                     calc_linear_address(segment_value_base_ds,
                                         wrapping_add(e.last_ea, 2)),
                     e.last_ea, e.ea_opr)
          [] OTHER ->
               EaOut("read_operand_farptr", NoEa, "None", NotRead, NotRead,
                     e.last_ea, e.ea_opr)

\* read_operand_farptr2: Some(word) for the half of the far pointer that ptr
\* names; for a register operand the offset half is Some(0), read nowhere
read_operand_farptr2(c, e, g, operand, seg_override, ptr) ==
    LET r == calc_effective_address(c, g, operand.mode, seg_override)
        flat_addr == calc_linear_address(r.seg_val, r.offset)
        segment_value_base_ds ==
            segment_val(c, base_segment(e.i.segment_override, "DS"))
    IN  CASE operand.kind = "AddressingMode" ->
               IF r.panic # NoPanic
               THEN EaOut("read_operand_farptr2", r, "none", NotRead, NotRead,
                          e.last_ea, e.ea_opr)
               ELSE IF ptr = "Offset"
               THEN EaOut("read_operand_farptr2", r, "Some", flat_addr,
                          NotRead, r.offset, e.ea_opr)
               ELSE EaOut("read_operand_farptr2", r, "Some", NotRead,
                          flat_addr + 2, r.offset, e.ea_opr)
          [] operand.kind = "Register16" ->
               IF ptr = "Offset"
               THEN EaOut("read_operand_farptr2", NoEa, "Some", NotRead,
                          NotRead, e.last_ea, e.ea_opr)
               ELSE EaOut("read_operand_farptr2", NoEa, "Some", NotRead,
                          calc_linear_address(segment_value_base_ds,
                                              wrapping_add(e.last_ea, 2)),
                          e.last_ea, e.ea_opr)
          [] OTHER ->
               EaOut("read_operand_farptr2", NoEa, "None", NotRead, NotRead,
                     e.last_ea, e.ea_opr)

\* the 24 addressing modes, each with the displacements sampled for it:
\* 0x7F and 0xFF (-1) for an 8-bit one, 0x1234 and 0xFFFF (-1) for a 16-bit
\* one
ModeSamples ==
    {AddressingMode(ModeNames[1][k], NoDisplacement) : k \in {1, 2, 3, 4, 5, 6, 8}}
      \cup {AddressingMode("Disp16", Displacement("Disp16", d)) :
               d \in {4660, -1}}
      \cup {AddressingMode(ModeNames[2][k], Displacement("Disp8", d)) :
               k \in 1..8, d \in {127, -1}}
      \cup {AddressingMode(ModeNames[3][k], Displacement("Disp16", d)) :
               k \in 1..8, d \in {4660, -1}}

\* images of bx, si, di and bp
GprSamples ==
    {[bx |-> 2, si |-> 0, di |-> 0, bp |-> 0],
     [bx |-> 65535, si |-> 65535, di |-> 1, bp |-> 32768],
     [bx |-> 4660, si |-> 3840, di |-> 61440, bp |-> 65534]}

\* images of the segment registers
SegSamples ==
    {[es |-> 12288, cs |-> 61440, ds |-> 4096, ss |-> 8192],
     [es |-> 0, cs |-> 61440, ds |-> 65535, ss |-> 65535]}

\* the instruction that owns the operand: LES / LDS with a memory source, and
\* the illegal form with a register source
FarPtrInstr(operand, segment_override) ==
    [operand |-> operand, segment_override |-> segment_override,
     flags |-> {I_LOAD_EA, I_HAS_MODRM}
                 \cup (IF operand.kind = "AddressingMode" THEN {I_USES_MEM}
                       ELSE {})]

RegisterSource == Operand("Register16", "AX", NoMode, 0, 0)

(***************************************************************************)
(* State                                                                   *)
(***************************************************************************)
VARIABLES
    queue,      \* the Cpu's InstructionQueue
    ret,        \* value returned by the last queue call
    panic,      \* panic message of the last queue call, NoPanic if none
    fresh,      \* reference queue: created by new() when queue is flushed,
                \* then driven by the same calls
    pushed,     \* history: bytes enqueued since creation / the last flush
    dequeued,   \* history: bytes dequeued from the ring since then
    lastOp,     \* history: kind of the last push / pop / flush
    resizes,    \* history: number of new / set_size calls so far
    cpu,        \* the Cpu's segment registers es, cs, ds, ss
    lin,        \* the last linear address computed, with its inputs
    vregs,      \* current_instr.regs[0], the register image to load
    reg_buf,    \* the 28-byte register buffer
    store_regs, \* the register image decoded from the buffer
    rstage,     \* how far the register image has travelled
    overflow_checks, \* build profile: are arithmetic overflows checked
    cpu_states, \* the cycle states returned by the physical CPU's step
    cyc_hist,   \* history: cpu_states as the step returned them, then
                \* as each correct_queue_counts pass left them
    cyc_cmp,    \* inputs and result of the last cycle call, if that call
                \* was validate_cycles
    cyc_panic,  \* panic message of the last cycle call, NoPanic if none
    v,          \* the ArduinoValidator
    vret,       \* the last validator call: its inputs, its result and what
                \* it did on the way
    validated,  \* history: the addresses of the instructions that
                \* validate_instruction stepped and found Ok, less those
                \* written by the emulator since
    code,       \* the bytes the byte queue delivers to decode
    cursor,     \* the number of bytes read from it so far
    decoded,    \* the result of decode
    accessed,   \* history: the operands the execution has accessed
    gpr,        \* the Cpu's registers bx, si, di, bp
    ea,         \* the Cpu's last_ea and ea_opr, and the operand and segment
                \* override of its current instruction i
    ea_ret      \* the last addressing call and its result

qvars == << queue, ret, panic, fresh, pushed, dequeued, lastOp, resizes >>

avars == << cpu, lin >>

rvars == << vregs, reg_buf, store_regs, rstage >>

cvars == << overflow_checks, cpu_states, cyc_hist, cyc_cmp, cyc_panic >>

vvars == << v, vret, validated >>

dvars == << code, cursor, decoded, accessed >>

evars == << gpr, ea, ea_ret >>

vars == << queue, ret, panic, fresh, pushed, dequeued, lastOp, resizes,
           cpu, lin, vregs, reg_buf, store_regs, rstage,
           overflow_checks, cpu_states, cyc_hist, cyc_cmp, cyc_panic,
           v, vret, validated, code, cursor, decoded, accessed,
           gpr, ea, ea_ret >>

\* what a caller can observe of a queue through its public methods
Observe(s) ==
    [len |-> len(s), full |-> is_full(s), preload |-> has_preload(s),
     delay |-> get_delay(s), str |-> to_string(s)]

QInit ==
    /\ queue = default
    /\ ret = None
    /\ panic = NoPanic
    /\ fresh = [on |-> FALSE, res |-> Returned(default, None)]
    /\ pushed = << >>
    /\ dequeued = << >>
    /\ lastOp = "none"
    /\ resizes = 0

\* the reference queue takes the same call, r being its result there
Mirror(r) ==
    fresh' = IF fresh.on /\ fresh.res.panic = NoPanic
             THEN [fresh EXCEPT !.res = r]
             ELSE fresh

Commit(r) ==
    /\ queue' = r.q
    /\ ret' = r.ret
    /\ panic' = r.panic

Push8(byte) ==
    /\ panic = NoPanic
    /\ Len(pushed) < MaxPush
    /\ LET r == push8(queue, byte) IN
       /\ Commit(r)
       /\ Mirror(push8(fresh.res.q, byte))
       /\ pushed' = IF r.panic = NoPanic THEN Append(pushed, byte) ELSE pushed
       /\ lastOp' = IF r.panic = NoPanic THEN "push" ELSE lastOp
    /\ UNCHANGED dequeued
    /\ UNCHANGED << dvars, evars, resizes, avars, rvars, cvars, vvars >>

Push16(word) ==
    /\ panic = NoPanic
    /\ Len(pushed) + 1 < MaxPush
    /\ LET r == push16(queue, word)
           bytes == << word % 256, word \div 256 >> IN
       /\ Commit(r)
       /\ Mirror(push16(fresh.res.q, word))
       /\ pushed' = pushed \o SubSeq(bytes, 1, r.q.len - queue.len)
       /\ lastOp' = IF r.q.len > queue.len THEN "push" ELSE lastOp
    /\ UNCHANGED dequeued
    /\ UNCHANGED << dvars, evars, resizes, avars, rvars, cvars, vvars >>

Pop ==
    /\ panic = NoPanic
    /\ LET r == pop(queue) IN
       /\ Commit(r)
       /\ Mirror(pop(fresh.res.q))
       /\ dequeued' = IF r.panic = NoPanic THEN dequeued \o r.ret ELSE dequeued
       /\ lastOp' = IF r.panic = NoPanic THEN "pop" ELSE lastOp
    /\ UNCHANGED pushed
    /\ UNCHANGED << dvars, evars, resizes, avars, rvars, cvars, vvars >>

SetPreload ==
    /\ panic = NoPanic
    /\ LET r == set_preload(queue) IN
       /\ Commit(r)
       /\ Mirror(set_preload(fresh.res.q))
       /\ dequeued' = IF r.panic = NoPanic THEN dequeued \o r.q.preload ELSE dequeued
       /\ lastOp' = IF r.panic = NoPanic THEN "pop" ELSE lastOp
    /\ UNCHANGED pushed
    /\ UNCHANGED << dvars, evars, resizes, avars, rvars, cvars, vvars >>

GetPreload ==
    /\ panic = NoPanic
    /\ Commit(get_preload(queue))
    /\ Mirror(get_preload(fresh.res.q))
    /\ UNCHANGED << dvars, evars, pushed, dequeued, lastOp >>
    /\ UNCHANGED << dvars, evars, resizes, avars, rvars, cvars, vvars >>

Flush ==
    /\ panic = NoPanic
    /\ Commit(flush(queue))
    /\ fresh' = [on |-> TRUE, res |-> Returned(new(queue.size), None)]
    /\ pushed' = << >>
    /\ dequeued' = << >>
    /\ lastOp' = "flush"
    /\ UNCHANGED << dvars, evars, resizes, avars, rvars, cvars, vvars >>

New(size) ==
    /\ panic = NoPanic
    /\ resizes < MaxResize
    /\ resizes' = resizes + 1
    /\ Commit(Returned(new(size), None))
    /\ fresh' = [on |-> FALSE, res |-> Returned(new(size), None)]
    /\ pushed' = << >>
    /\ dequeued' = << >>
    /\ lastOp' = "none"
    /\ UNCHANGED << dvars, evars, avars, rvars, cvars, vvars >>

SetSize(size) ==
    /\ panic = NoPanic
    /\ resizes < MaxResize
    /\ resizes' = resizes + 1
    /\ Commit(set_size(queue, size))
    /\ Mirror(set_size(fresh.res.q, size))
    /\ UNCHANGED << dvars, evars, pushed, dequeued, lastOp >>
    /\ UNCHANGED << dvars, evars, avars, rvars, cvars, vvars >>

(***************************************************************************)
(* Linearization steps                                                     *)
(***************************************************************************)
NoLin == [fn |-> "none", seg |-> 0, off |-> 0, addr |-> 0]

AInit ==
    /\ cpu = [es |-> 0, cs |-> 0, ds |-> 0, ss |-> 0]
    /\ lin = NoLin

CalcLinearAddress(segment, offset) ==
    /\ lin' = [fn |-> "calc_linear_address", seg |-> segment, off |-> offset,
               addr |-> calc_linear_address(segment, offset)]
    /\ UNCHANGED << dvars, evars, cpu, qvars, rvars, cvars, vvars >>

CalcLinearAddressSeg(segment, offset) ==
    /\ lin' = [fn |-> "calc_linear_address_seg", seg |-> segment_val(cpu, segment),
               off |-> offset,
               addr |-> calc_linear_address_seg(cpu, segment, offset)]
    /\ UNCHANGED << dvars, evars, cpu, qvars, rvars, cvars, vvars >>

MakePointer(base, offset) ==
    /\ lin' = [fn |-> "make_pointer", seg |-> base, off |-> offset,
               addr |-> make_pointer(base, offset)]
    /\ UNCHANGED << dvars, evars, cpu, qvars, rvars, cvars, vvars >>

(***************************************************************************)
(* Register buffer steps                                                   *)
(***************************************************************************)
RInit ==
    /\ vregs = DefaultRegs
    /\ reg_buf = ZeroBuf
    /\ store_regs = DefaultRegs
    /\ rstage = "init"

\* set_regs: a zeroed buffer filled from current_instr.regs[0]
RegsToBuf ==
    /\ reg_buf' = regs_to_buf(ZeroBuf, vregs)
    /\ rstage' = "loaded"
    /\ UNCHANGED << dvars, evars, vregs, store_regs, qvars, avars, cvars, vvars >>

\* the image decoded from the buffer as it stands
BufToRegs ==
    /\ store_regs' = buf_to_regs(reg_buf)
    /\ rstage' = IF rstage \in {"loaded", "stored"} THEN "stored" ELSE "blank"
    /\ UNCHANGED << dvars, evars, vregs, reg_buf, qvars, avars, cvars, vvars >>

(***************************************************************************)
(* Cycle-state steps                                                       *)
(***************************************************************************)
NoCmp == [called |-> FALSE, cpu |-> << >>, emu |-> << >>,
          result |-> << TRUE, 0 >>]

\* no cycle states have been received
CIdle ==
    /\ overflow_checks = FALSE
    /\ cpu_states = << >>
    /\ cyc_hist = << << >> >>
    /\ cyc_cmp = NoCmp
    /\ cyc_panic = NoPanic

\* a step has returned some cycle states, in a debug or a release build
CInit ==
    /\ overflow_checks \in BOOLEAN
    /\ cpu_states \in SeqsUpTo(CycleSamples, MaxCycles)
    /\ cyc_hist = << cpu_states >>
    /\ cyc_cmp = NoCmp
    /\ cyc_panic = NoPanic

CorrectQueueCounts ==
    /\ cyc_panic = NoPanic
    /\ Len(cyc_hist) <= MaxPasses
    /\ LET r == correct_queue_counts(cpu_states, overflow_checks)
       IN  /\ cpu_states' = r.states
           /\ cyc_panic' = r.panic
           /\ cyc_hist' = Append(cyc_hist, r.states)
    /\ cyc_cmp' = NoCmp
    /\ UNCHANGED << dvars, evars, overflow_checks, qvars, avars, rvars, vvars >>

ValidateCycles(emu_states) ==
    /\ cyc_panic = NoPanic
    /\ cyc_cmp' = [called |-> TRUE, cpu |-> cpu_states, emu |-> emu_states,
                   result |-> validate_cycles(cpu_states, emu_states)]
    /\ UNCHANGED << dvars, evars, overflow_checks, cpu_states, cyc_hist, cyc_panic,
                    qvars, avars, rvars, vvars >>

(***************************************************************************)
(* Validator steps                                                         *)
(***************************************************************************)
NoArgs == [instr |-> << >>, regs |-> DefaultRegs, store |-> NoStore,
           step |-> NoStep, emu_states |-> << >>, emu_ops |-> << >>,
           discard |-> FALSE, has_modrm |-> FALSE]

\* the record of a call that returns nothing and compares nothing
Called(call) ==
    [call |-> call, ret |-> "none", panic |-> NoPanic, stepped |-> FALSE,
     mem |-> NoMem, cyc |-> NoCyc, args |-> NoArgs]

\* no validator call has been made
VIdle ==
    /\ v = ArduinoValidator_new
    /\ vret = Called("new")
    /\ validated = {}

\* the validator after new() and init(mode, mask_flags, cycle_trace, visit_once)
VInit ==
    /\ \E m \in ValidatorModes, o \in BOOLEAN :
          v = init(ArduinoValidator_new, m, TRUE, o)
    /\ vret = Called("init")
    /\ validated = {}

BeginInstruction(regs) ==
    /\ vret.panic = NoPanic
    /\ v' = begin_instruction(v, regs)
    /\ vret' = Called("begin_instruction")
    /\ UNCHANGED << dvars, evars, validated, qvars, avars, rvars, cvars >>

ResetInstruction ==
    /\ vret.panic = NoPanic
    /\ v' = reset_instruction(v)
    /\ vret' = Called("reset_instruction")
    /\ UNCHANGED << dvars, evars, validated, qvars, avars, rvars, cvars >>

EmuReadByte(addr, data, bus_type, read_type) ==
    /\ vret.panic = NoPanic
    /\ Len(v.current_instr.emu_ops) < MaxOps
    /\ v' = emu_read_byte(v, addr, data, bus_type, read_type)
    /\ vret' = Called("emu_read_byte")
    /\ UNCHANGED << dvars, evars, validated, qvars, avars, rvars, cvars >>

EmuWriteByte(addr, data, bus_type) ==
    /\ vret.panic = NoPanic
    /\ Len(v.current_instr.emu_ops) < MaxOps
    /\ v' = emu_write_byte(v, addr, data, bus_type)
    /\ vret' = Called("emu_write_byte")
    /\ validated' = IF bus_type = "Mem" THEN validated \ {BitAnd(addr, 1048575)}
                    ELSE validated
    /\ UNCHANGED << dvars, evars, qvars, avars, rvars, cvars >>

DiscardOp ==
    /\ vret.panic = NoPanic
    /\ v' = discard_op(v)
    /\ vret' = Called("discard_op")
    /\ UNCHANGED << dvars, evars, validated, qvars, avars, rvars, cvars >>

ValidateInstruction(instr, has_modrm, regs, emu_states, step) ==
    /\ vret.panic = NoPanic
    /\ LET r == validate_instruction(v, instr, has_modrm, regs, emu_states,
                                     step, overflow_checks)
       IN  /\ v' = r.v
           /\ vret' = [call |-> "validate_instruction", ret |-> r.ret,
                       panic |-> r.panic, stepped |-> r.stepped,
                       mem |-> r.mem, cyc |-> r.cyc,
                       args |-> [NoArgs EXCEPT
                                    !.instr = instr,
                                    !.has_modrm = has_modrm,
                                    !.regs = regs,
                                    !.step = IF r.stepped THEN step ELSE NoStep,
                                    !.emu_states = emu_states,
                                    !.emu_ops = v.current_instr.emu_ops,
                                    !.discard = v.current_instr.discard]]
           /\ validated' =
                  IF r.stepped /\ r.ret \in {"Ok(Ok)", "Ok(OkEnd)"}
                  THEN validated \cup
                         {make_pointer(v.current_instr.regs[0].cs,
                                       v.current_instr.regs[0].ip)}
                  ELSE validated
    /\ UNCHANGED << dvars, evars, qvars, avars, rvars, cvars >>

ValidateRegs(regs, store) ==
    /\ vret.panic = NoPanic
    /\ LET r == validate_regs(v, regs, store)
       IN  vret' = [Called("validate_regs") EXCEPT
                       !.ret = r.ret, !.panic = r.panic,
                       !.args = [NoArgs EXCEPT !.regs = regs, !.store = store]]
    /\ UNCHANGED << dvars, evars, v, validated, qvars, avars, rvars, cvars >>

SetRegs(load) ==
    /\ vret.panic = NoPanic
    /\ LET r == set_regs(v, load)
       IN  /\ reg_buf' = r.reg_buf
           /\ vret' = [Called("set_regs") EXCEPT !.panic = r.panic]
    /\ UNCHANGED << dvars, evars, v, validated, vregs, store_regs, rstage, qvars, avars, cvars >>

\* validate_mem_ops called on its own with a discard flag
ValidateMemOps(discard) ==
    /\ vret.panic = NoPanic
    /\ LET r == validate_mem_ops(v, discard)
       IN  /\ v' = r.v
           /\ vret' = [Called("validate_mem_ops") EXCEPT
                          !.ret = IF r.ok THEN "true" ELSE "false",
                          !.mem = [called |-> TRUE, discard |-> discard,
                                   ok |-> r.ok, emu |-> r.emu, cpu |-> r.cpu],
                          !.args = [NoArgs EXCEPT
                                       !.emu_ops = v.current_instr.emu_ops]]
    /\ UNCHANGED << dvars, evars, validated, qvars, avars, rvars, cvars >>

\* validate_registers called on its own
ValidateRegisters(regs) ==
    /\ vret.panic = NoPanic
    /\ vret' = [Called("validate_registers") EXCEPT
                   !.ret = IF validate_registers(v, regs) THEN "true" ELSE "false",
                   !.args = [NoArgs EXCEPT !.regs = regs]]
    /\ UNCHANGED << dvars, evars, v, validated, qvars, avars, rvars, cvars >>

(***************************************************************************)
(* Decoder and operand-access steps                                        *)
(***************************************************************************)
\* nothing is being decoded
DIdle ==
    /\ code = << >>
    /\ cursor = 0
    /\ decoded = NoDecode
    /\ accessed = {}

\* decode(bytes) on the queue: the prefixes, the opcode and the ModR/M with
\* its displacement are read, the immediates only peeked
Decode ==
    /\ ~decoded.called
    /\ decoded' = decode(code)
    /\ cursor' = decode(code).read
    /\ UNCHANGED << code, accessed, evars, qvars, avars, rvars, cvars, vvars >>

\* operand k of the decoded instruction
OperandType(k) ==
    IF k = 1 THEN decoded.i.operand1_type ELSE decoded.i.operand2_type

OperandSize(k) ==
    IF k = 1 THEN decoded.i.operand1_size ELSE decoded.i.operand2_size

\* the execution of the decoded instruction makes its one access to operand
\* k through routine fn, which fetches n bytes from the queue
Access(fn, k, n) ==
    /\ decoded.called /\ decoded.ok
    /\ k \notin accessed
    /\ Executes(fn, OperandType(k), OperandSize(k))
    /\ cursor' = cursor + n
    /\ accessed' = accessed \cup {k}
    /\ UNCHANGED << code, decoded, evars, qvars, avars, rvars, cvars, vvars >>

ReadOperand8(k) == Access("read_operand8", k, read_operand8(OperandType(k)))

ReadOperand16(k) == Access("read_operand16", k, read_operand16(OperandType(k)))

WriteOperand8(k) == Access("write_operand8", k, write_operand8(OperandType(k)))

WriteOperand16(k) ==
    Access("write_operand16", k, write_operand16(OperandType(k)))

ReadOperandFaraddr(k) == Access("read_operand_faraddr", k, read_operand_faraddr)

(***************************************************************************)
(* Effective-address steps                                                 *)
(***************************************************************************)
\* no addressing call has been made
NoEaRet == EaOut("none", NoEa, "none", NotRead, NotRead, 0, NotRead)

EIdle ==
    /\ gpr = [bx |-> 0, si |-> 0, di |-> 0, bp |-> 0]
    /\ ea = [last_ea |-> 0, ea_opr |-> NotRead,
             i |-> FarPtrInstr(RegisterSource, "None")]
    /\ ea_ret = NoEaRet

\* an addressing call with result r: last_ea and ea_opr as it leaves them
Addressed(r) ==
    /\ ea_ret.panic = NoPanic
    /\ ea_ret' = r
    /\ ea' = [ea EXCEPT !.last_ea = r.last_ea, !.ea_opr = r.ea_opr]
    /\ UNCHANGED << gpr, dvars, qvars, avars, rvars, cvars, vvars >>

CalcEffectiveAddress ==
    /\ ea.i.operand.kind = "AddressingMode"
    /\ LET r == calc_effective_address(cpu, gpr, ea.i.operand.mode,
                                       ea.i.segment_override)
       IN  Addressed(EaOut("calc_effective_address", r, "none", NotRead,
                           NotRead,
                           IF r.panic = NoPanic THEN r.offset ELSE ea.last_ea,
                           ea.ea_opr))

LoadOperand == Addressed(load_operand(cpu, gpr, ea))

ReadOperandFarptr ==
    /\ ea_ret.fn = "load_operand"
    /\ Addressed(read_operand_farptr(cpu, ea, gpr, ea.i.operand,
                                     ea.i.segment_override))

ReadOperandFarptr2(ptr) ==
    /\ ea_ret.fn \in {"load_operand", "read_operand_farptr2"}
    /\ Addressed(read_operand_farptr2(cpu, ea, gpr, ea.i.operand,
                                      ea.i.segment_override, ptr))

\* the next instruction decoded is the register-source form of LES / LDS
FetchRegisterSource ==
    /\ ea_ret.panic = NoPanic
    /\ ea.i.operand.kind = "AddressingMode"
    /\ ea_ret.fn # "none"
    /\ ea' = [ea EXCEPT !.i = FarPtrInstr(RegisterSource, @.segment_override)]
    /\ ea_ret' = [NoEaRet EXCEPT !.last_ea = ea.last_ea, !.ea_opr = ea.ea_opr]
    /\ UNCHANGED << gpr, dvars, qvars, avars, rvars, cvars, vvars >>

(***************************************************************************)
(* Specifications                                                          *)
(***************************************************************************)
Init == QInit /\ AInit /\ DIdle /\ EIdle /\ RInit /\ CIdle /\ VIdle

Next ==
    \/ \E b \in PushBytes : Push8(b)
    \/ \E w \in PushWords : Push16(w)
    \/ Pop
    \/ SetPreload
    \/ GetPreload
    \/ Flush

\* the 8088 queue: capacity 4, never resized
Spec == Init /\ [][Next]_vars

NextResize ==
    \/ Next
    \/ \E n \in QueueSizes : New(n)
    \/ \E n \in QueueSizes : SetSize(n)

\* the queue with new(size) and set_size(size) in play
SpecResize == Init /\ [][NextResize]_vars

InitAddr ==
    /\ QInit
    /\ RInit
    /\ CIdle
    /\ VIdle
    /\ DIdle /\ EIdle
    /\ cpu \in [es : SegVals, cs : SegVals, ds : SegVals, ss : SegVals]
    /\ lin = NoLin

NextAddr ==
    \/ \E s \in SegVals, o \in OffVals : CalcLinearAddress(s, o)
    \/ \E sg \in Segments, o \in OffVals : CalcLinearAddressSeg(sg, o)
    \/ \E s \in SegVals, o \in OffVals : MakePointer(s, o)

\* the three linearization routines on sampled segments and offsets
SpecAddr == InitAddr /\ [][NextAddr]_vars

InitRegs ==
    /\ QInit
    /\ AInit /\ DIdle /\ EIdle
    /\ CIdle
    /\ VIdle
    /\ vregs \in RegImages
    /\ reg_buf = ZeroBuf
    /\ store_regs = DefaultRegs
    /\ rstage = "init"

NextRegs ==
    \/ RegsToBuf
    \/ BufToRegs

\* the register buffer conversions on sampled register images
SpecRegs == InitRegs /\ [][NextRegs]_vars

InitCycles == QInit /\ AInit /\ DIdle /\ EIdle /\ RInit /\ CInit /\ VIdle

NextCycles ==
    \/ CorrectQueueCounts
    \/ \E e \in EmuCandidates(cpu_states, cyc_hist[1]) : ValidateCycles(e)

\* queue-count correction and cycle comparison on sampled cycle states
SpecCycles == InitCycles /\ [][NextCycles]_vars

\* bus operations sampled for the comparison: a code fetch, and operations
\* differing from it in kind alone, in address alone and in data alone
OpSamples ==
    {BusOp("CodeRead", 512, 144, MOF_EMULATOR),
     BusOp("MemRead", 512, 144, MOF_EMULATOR),
     BusOp("CodeRead", 513, 144, MOF_EMULATOR),
     BusOp("CodeRead", 512, 0, MOF_EMULATOR)}

\* an instruction has been stepped: the emulator's and the physical CPU's
\* bus operations are recorded
InitMemOps ==
    /\ QInit /\ AInit /\ DIdle /\ EIdle /\ RInit /\ CIdle
    /\ \E e \in SeqsUpTo(OpSamples, MaxOps), c \in SeqsUpTo(OpSamples, MaxOps) :
          v = [ArduinoValidator_new EXCEPT
                  !.current_instr.emu_ops = e,
                  !.current_instr.cpu_ops = Physical(c)]
    /\ vret = Called("step")
    /\ validated = {}

NextMemOps == \E d \in BOOLEAN : ValidateMemOps(d)

\* validate_mem_ops on sampled bus-operation sequences
SpecMemOps == InitMemOps /\ [][NextMemOps]_vars

\* an instruction has been validated: its opcode, ModR/M byte and the
\* emulator's registers after it are recorded
InitRegCmp ==
    /\ QInit /\ AInit /\ DIdle /\ EIdle /\ RInit /\ CIdle
    /\ \E m \in BOOLEAN, r \in AfterRegs \ {[RampRegs EXCEPT !.flags = 0]},
          op \in {<< 144, 0 >>, << 156, 0 >>, << 246, 227 >>} :
          v = [init(ArduinoValidator_new, "Cycle", m, FALSE) EXCEPT
                  !.current_instr.regs[1] = r,
                  !.current_instr.opcode = op[1],
                  !.current_instr.modrm = op[2]]
    /\ vret = Called("validate_instruction")
    /\ validated = {}

NextRegCmp ==
    \/ \E r \in AfterRegs, st \in StoreOutcomes : ValidateRegs(r, st)
    \/ \E r \in AfterRegs : ValidateRegisters(r)

\* register validation on sampled register images
SpecRegCmp == InitRegCmp /\ [][NextRegCmp]_vars

InitVal ==
    /\ QInit /\ AInit /\ DIdle /\ EIdle /\ RInit
    /\ overflow_checks \in BOOLEAN
    /\ cpu_states = << >>
    /\ cyc_hist = << << >> >>
    /\ cyc_cmp = NoCmp
    /\ cyc_panic = NoPanic
    /\ v = init(ArduinoValidator_new, "Cycle", TRUE, FALSE)
    /\ vret = Called("init")
    /\ validated = {}

\* the calls the emulated CPU may make next under the per-instruction
\* protocol: begin_instruction, reset_instruction, the bus hooks and
\* discard_op during emulated execution, validate_instruction, and
\* validate_regs once the instruction was validated
CallerMay(call) ==
    LET executing == {"reset_instruction", "set_regs", "emu_read_byte",
                      "emu_write_byte", "discard_op"}
    IN  CASE call = "begin_instruction" ->
                 vret.call \in {"init", "validate_instruction", "validate_regs"}
          [] call = "reset_instruction" -> vret.call = "begin_instruction"
          [] call = "set_regs" -> vret.call = "reset_instruction"
          [] call \in {"emu_read_byte", "emu_write_byte", "discard_op",
                       "validate_instruction"} -> vret.call \in executing
          [] call = "validate_regs" ->
                 /\ vret.call = "validate_instruction"
                 /\ vret.ret \in {"Ok(Ok)", "Ok(OkEnd)"}

NextVal ==
    \/ CallerMay("begin_instruction") /\ BeginInstruction(LowRegs)
    \/ CallerMay("reset_instruction") /\ ResetInstruction
    \/ /\ CallerMay("set_regs")
       /\ \E ok \in BOOLEAN : SetRegs([ok |-> ok])
    \/ /\ CallerMay("emu_read_byte")
       /\ \E rt \in {"Code", "Data"} : EmuReadByte(512, 144, "Mem", rt)
    \/ CallerMay("emu_write_byte") /\ EmuWriteByte(1024, 7, "Mem")
    \/ CallerMay("discard_op") /\ DiscardOp
    \/ /\ CallerMay("validate_instruction")
       /\ \E ic \in InstrCalls, s \in StepSamples(v.current_instr.emu_ops) :
             ValidateInstruction(ic[1], ic[2], RampRegs, s[1], s[2])
    \/ /\ CallerMay("validate_regs")
       /\ \E r \in AfterRegs, st \in StoreOutcomes : ValidateRegs(r, st)

\* the validator driven through the per-instruction protocol
SpecVal == InitVal /\ [][NextVal]_vars

\* sampled validate_instruction calls of a caller that passes no cycle
\* states: the step fails, or it returns the emulator's bus ops, or bus ops
\* with a stray leading CodeRead
PlainSteps(ops) ==
    {NoStep, Stepped(<< >>, FALSE, Physical(ops), FALSE),
     Stepped(<< >>, FALSE,
             << BusOp("CodeRead", 512, 144, MOF_PI8088) >> \o Physical(ops),
             FALSE)}

InitDiscard ==
    /\ QInit /\ AInit /\ DIdle /\ EIdle /\ RInit /\ CIdle
    /\ VInit

NextDiscard ==
    \/ \E r \in {LowRegs, BiosRegs} : BeginInstruction(r)
    \/ ResetInstruction
    \/ EmuReadByte(512, 144, "Mem", "Code")
    \/ EmuWriteByte(make_pointer(BiosRegs.cs, BiosRegs.ip), 7, "Mem")
    \/ DiscardOp
    \/ \E step \in PlainSteps(v.current_instr.emu_ops) :
          ValidateInstruction(<< 144 >>, FALSE, RampRegs, << >>, step)

\* the validator in either mode, with and without visit_once, its calls made
\* in any order
SpecDiscard == InitDiscard /\ [][NextDiscard]_vars

\* a validator holding a trigger address, that of BiosRegs.  new() sets
\* trigger_addr to V_INVALID_POINTER and nothing else writes a trigger
\* address into it: this is the validator a configured trigger would give
InitTrigger ==
    /\ QInit /\ AInit /\ DIdle /\ EIdle /\ RInit /\ CIdle
    /\ \E m \in ValidatorModes :
          v = [init(ArduinoValidator_new, m, TRUE, FALSE) EXCEPT
                  !.trigger_addr = make_pointer(BiosRegs.cs, BiosRegs.ip)]
    /\ vret = Called("init")
    /\ validated = {}

\* the validator waiting for its trigger address
SpecTrigger == InitTrigger /\ [][NextDiscard]_vars

\* validate_instruction called with well-formed and malformed arguments:
\* each sampled byte slice with and without a ModR/M byte announced, and
\* after-images with and without flags
NextParam ==
    \/ CallerMay("begin_instruction") /\ BeginInstruction(LowRegs)
    \/ CallerMay("reset_instruction") /\ ResetInstruction
    \/ CallerMay("emu_read_byte") /\ EmuReadByte(512, 144, "Mem", "Code")
    \/ CallerMay("discard_op") /\ DiscardOp
    \/ /\ CallerMay("validate_instruction")
       /\ \E instr \in InstrSamples, has_modrm \in BOOLEAN,
             regs \in {RampRegs, [RampRegs EXCEPT !.flags = 0]},
             step \in PlainSteps(v.current_instr.emu_ops) :
             ValidateInstruction(instr, has_modrm, regs, << >>, step)

\* the validator in either build, given any sampled arguments under the
\* per-instruction protocol
SpecParam == InitVal /\ [][NextParam]_vars

(***************************************************************************)
InitDecode ==
    /\ QInit /\ AInit /\ RInit /\ CIdle /\ VIdle /\ EIdle
    /\ code \in DecodeSamples
    /\ cursor = 0
    /\ decoded = NoDecode
    /\ accessed = {}

NextDecode ==
    \/ Decode
    \/ \E k \in {1, 2} : ReadOperand8(k)
    \/ \E k \in {1, 2} : ReadOperand16(k)
    \/ \E k \in {1, 2} : WriteOperand8(k)
    \/ \E k \in {1, 2} : WriteOperand16(k)
    \/ \E k \in {1, 2} : ReadOperandFaraddr(k)

\* each sampled byte queue decoded, then the operands of the instruction
\* accessed by its execution
SpecDecode == InitDecode /\ [][NextDecode]_vars

InitEA ==
    /\ QInit /\ RInit /\ CIdle /\ VIdle /\ DIdle
    /\ cpu \in SegSamples
    /\ lin = NoLin
    /\ gpr \in GprSamples
    /\ \E operand \in {Operand("AddressingMode", "none", m, 0, 0) :
                          m \in ModeSamples},
          segment_override \in {"None", "ES"} :
          ea = [last_ea |-> 0, ea_opr |-> NotRead,
                i |-> FarPtrInstr(operand, segment_override)]
    /\ ea_ret = NoEaRet

NextEA ==
    \/ CalcEffectiveAddress
    \/ LoadOperand
    \/ ReadOperandFarptr
    \/ \E ptr \in {"Offset", "Segment"} : ReadOperandFarptr2(ptr)
    \/ FetchRegisterSource

\* the addressing routines on a far-pointer instruction, sampled over the
\* addressing modes, the registers and the segment override
SpecEA == InitEA /\ [][NextEA]_vars

(***************************************************************************)
(* Properties of the InstructionQueue                                      *)
(***************************************************************************)
\* C1: with capacity 4, len() is the number of bytes pushed minus the number
\* of bytes popped, and is_full() holds exactly when len() is the capacity.
C1_LenIsPushesMinusPops ==
    /\ len(queue) = Len(pushed) - Len(dequeued)
    /\ is_full(queue) <=> (Len(pushed) - Len(dequeued) = DefaultSize)

\* C1 witness: a full queue after bytes have been both pushed and popped
C1_Witness ==
    /\ is_full(queue)
    /\ Len(dequeued) >= 2
    /\ panic = NoPanic

\* C2: get_delay() is Write iff the last operation was a push that resulted in
\* length 3, Read iff it was a pop that left length >= 3, None otherwise.
C2_DelayFollowsLastOp ==
    /\ get_delay(queue) \in {"Read", "Write", "None"}
    /\ (get_delay(queue) = "Write") <=> (lastOp = "push" /\ len(queue) = 3)
    /\ (get_delay(queue) = "Read") <=> (lastOp = "pop" /\ len(queue) >= 3)

\* C2 witness: a pop from a full queue has left three bytes, delay is Read
C2_Witness ==
    /\ lastOp = "pop"
    /\ len(queue) = 3
    /\ get_delay(queue) = "Read"

C4_FlushLikeFresh ==
    /\ lastOp = "flush" =>
          /\ len(queue) = 0
          /\ ~has_preload(queue)
          /\ get_delay(queue) = "None"
    /\ fresh.on =>
          /\ Observe(queue) = Observe(fresh.res.q)
          /\ ret = fresh.res.ret
          /\ panic = fresh.res.panic

\* C4 witness: a flushed queue, still holding stale bytes in its array, has
\* taken pushes and pops since the flush
C4_Witness ==
    /\ fresh.on
    /\ queue.q # fresh.res.q
    /\ len(queue) >= 2
    /\ Len(dequeued) >= 1

\* C5: a push without room, a pop or set_preload on an empty queue fails with
\* an explicit error and leaves the queue unchanged.
C5_FailedCallLeavesQueue ==
    [][panic' # NoPanic => queue' = queue]_vars

\* C6: 0 <= length <= capacity and capacity <= QUEUE_MAX after any sequence
\* of operations, new(size) and set_size(size) included.
C6_CapacityInvariant ==
    /\ 0 <= len(queue)
    /\ len(queue) <= queue.size
    /\ queue.size <= QUEUE_MAX

\* C7: while the preload slot holds a byte, no call dequeues a byte from the
\* ring until get_preload() has cleared the slot.
C7_PreloadBeforeDequeue ==
    [][has_preload(queue) => Len(dequeued') <= Len(dequeued)]_vars

(***************************************************************************)
(* Properties of linearization                                             *)
(***************************************************************************)
\* C8: the linear address is ((segment << 4) + offset) & 0xFFFFF, that is
\* segment * 16 + offset modulo 2^20, and calc_linear_address,
\* calc_linear_address_seg and make_pointer agree on it.
C8_LinearAgree ==
    lin.fn # "none" =>
        /\ lin.addr = (lin.seg * 16 + lin.off) % 1048576
        /\ calc_linear_address(lin.seg, lin.off) = lin.addr
        /\ make_pointer(lin.seg, lin.off) = lin.addr
        /\ \A sg \in Segments :
              segment_val(cpu, sg) = lin.seg =>
                  calc_linear_address_seg(cpu, sg, lin.off) = lin.addr

\* C8 witness: calc_linear_address_seg has run on a segment register whose
\* value makes the sum pass 2^20
C8_Witness ==
    /\ lin.fn = "calc_linear_address_seg"
    /\ lin.seg = 65535
    /\ lin.off = 65535
    /\ \E sg \in Segments \ {"None"} : segment_val(cpu, sg) = lin.seg

\* C9 as stated: linear(0xF000, 0xFFFF) = 0xFFEF and linear(0xFFFF, 0x0010) = 0xF
C9_WrapAsStated ==
    lin.fn # "none" =>
        /\ (lin.seg = 61440 /\ lin.off = 65535) => lin.addr = 65519
        /\ (lin.seg = 65535 /\ lin.off = 16) => lin.addr = 15

\* C9 amended: linear(0xF000, 0xFFFF) = 0xFFFFF (no wrap) and
\* linear(0xFFFF, 0x0010) = 0x00000 (0x100000 masked to 20 bits)
C9_WrapBoundaries ==
    lin.fn # "none" =>
        /\ (lin.seg = 61440 /\ lin.off = 65535) => lin.addr = 1048575
        /\ (lin.seg = 65535 /\ lin.off = 16) => lin.addr = 0

\* C9 witness: make_pointer(0xFFFF, 0x0010) has been computed
C9_Witness ==
    /\ lin.fn = "make_pointer"
    /\ lin.seg = 65535
    /\ lin.off = 16

(***************************************************************************)
(* Properties of the register buffer                                       *)
(***************************************************************************)
\* the order of the registers in the 28-byte buffer
RegOrder == << "ax", "bx", "cx", "dx", "ss", "sp", "flags", "ip",
               "cs", "ds", "es", "bp", "si", "di" >>

\* C10: regs_to_buf stores each register little-endian at offsets AX 0, BX 2,
\* CX 4, DX 6, SS 8, SP 10, FLAGS 12, IP 14, CS 16, DS 18, ES 20, BP 22,
\* SI 24, DI 26, and buf_to_regs(regs_to_buf(r)) = r.
C10_RegBufRoundTrip ==
    /\ rstage \in {"loaded", "stored"} =>
          \A i \in 1..14 :
              /\ reg_buf[2 * (i - 1)] = vregs[RegOrder[i]] % 256
              /\ reg_buf[2 * (i - 1) + 1] = vregs[RegOrder[i]] \div 256
    /\ rstage = "stored" => store_regs = vregs

\* C10 witness: an image of fourteen different registers has made the trip
C10_Witness ==
    /\ rstage = "stored"
    /\ vregs = RampRegs

(***************************************************************************)
(* Properties of the cycle-state comparison                                *)
(***************************************************************************)
\* the indices after the first whose cycle carries a First or Subsequent
\* queue read
FetchCycles(cs) ==
    {i \in 2..Len(cs) : cs[i].q_op \in {"First", "Subsequent"}}

C12_CyclesReflexive ==
    (cyc_cmp.called /\ cyc_cmp.emu = cyc_cmp.cpu) =>
        cyc_cmp.result = << TRUE, 0 >>

\* C12 witness: a sequence of at least two cycles has been compared with
\* itself
C12_Witness ==
    /\ cyc_cmp.called
    /\ cyc_cmp.emu = cyc_cmp.cpu
    /\ Len(cyc_cmp.cpu) >= 2
    /\ cyc_cmp.result = << TRUE, 0 >>

(***************************************************************************)
(* Properties of validate_instruction                                      *)
(***************************************************************************)
\* the physical CPU's cycle states of the last validate_instruction call as
\* correct_queue_counts leaves them
CorrectedStates ==
    correct_queue_counts(vret.args.step.cpu_states, overflow_checks)

\* the last call was a validate_instruction that stepped the physical CPU
\* and got past the bus-op comparison
PastMemOps ==
    /\ vret.call = "validate_instruction"
    /\ vret.stepped
    /\ vret.args.step.ok
    /\ vret.ret # "Err(MemOpMismatch)"

\* the zero-based index of the first difference of two sequences of equal
\* length that differ
FirstDiff(a, b) ==
    (CHOOSE i \in 1..Len(a) :
        a[i] # b[i] /\ \A j \in 1..(i - 1) : a[j] = b[j]) - 1

\* C13 as stated: for a non-discarded instruction whose bus operations match,
\* validate_instruction returns Err(CycleMismatch) whenever the emulator's
\* cycle states (of any length, zero included) and the corrected physical
\* cycle states differ in length or at some index
C13_CycleMismatchAsStated ==
    (/\ PastMemOps
     /\ vret.mem.called
     /\ CorrectedStates.panic = NoPanic
     /\ CorrectedStates.states # vret.args.emu_states)
        => vret.ret = "Err(CycleMismatch)"

\* C13 amended: for a stepped instruction past the bus-op comparison, cycle
\* states are compared only if the emulator passed some: then the call
\* returns Err(CycleMismatch) exactly when the emulator's sequence and the
\* corrected physical sequence differ, tracing (not returning) the first
\* differing index, or 0 when the lengths differ, and it panics when the
\* correction overflows in a checked build; with no emulator cycle states
\* nothing is compared and the call returns Ok
C13_CycleMismatchIfProvided ==
    PastMemOps =>
        IF vret.args.emu_states = << >>
        THEN /\ ~vret.cyc.called
             /\ vret.ret \in {"Ok(Ok)", "Ok(OkEnd)"}
        ELSE IF CorrectedStates.panic # NoPanic
        THEN vret.panic = CorrectedStates.panic /\ vret.ret = "none"
        ELSE /\ vret.ret = "Err(CycleMismatch)"
                    <=> CorrectedStates.states # vret.args.emu_states
             /\ vret.ret \in {"Err(CycleMismatch)", "Ok(Ok)", "Ok(OkEnd)"}
             /\ vret.ret = "Err(CycleMismatch)" =>
                    vret.cyc.result =
                        << FALSE,
                           IF Len(vret.cyc.cpu) # Len(vret.cyc.emu) THEN 0
                           ELSE FirstDiff(vret.cyc.cpu, vret.cyc.emu) >>

\* C13 witness: a stepped instruction whose bus operations matched has
\* returned CycleMismatch for cycle states that first differ at index 1
C13_Witness ==
    /\ PastMemOps
    /\ vret.mem.called
    /\ vret.mem.ok
    /\ vret.ret = "Err(CycleMismatch)"
    /\ vret.cyc.result = << FALSE, 1 >>

(***************************************************************************)
(* Properties of register validation                                       *)
(***************************************************************************)
\* C14: validate_regs(regs_after) returns Err(RegisterMismatch) whenever the
\* registers read back from the physical CPU differ from the emulator's
\* regs_after in a compared register (here AX), so that its verdict depends
\* on what the physical CPU stored
C14_PhysicalMismatchReported ==
    (/\ vret.call = "validate_regs"
     /\ vret.args.store.ok
     /\ vret.args.store.regs.ax # vret.args.regs.ax)
        => vret.ret = "Err(RegisterMismatch)"

\* the general, segment and pointer/index registers
ExactRegs == {"ax", "bx", "cx", "dx", "cs", "ds", "es", "ss",
              "sp", "bp", "si", "di"}

\* C15: validate_registers returns false whenever the two register images
\* differ in any one of AX, BX, CX, DX, CS, DS, ES, SS, SP, BP, SI, DI
C15_AnyRegisterDifferenceFails ==
    (/\ vret.call = "validate_registers"
     /\ \E n \in ExactRegs :
           v.current_instr.regs[1][n] # vret.args.regs[n])
        => vret.ret = "false"

(***************************************************************************)
(* Properties of the bus-operation comparison                              *)
(***************************************************************************)
\* a bus-op sequence without its origin tags
Untagged(ops) ==
    [i \in 1..Len(ops) |-> << ops[i].op_type, ops[i].addr, ops[i].data >>]

\* a requested discard finds no leading CodeRead in ops to drop
DiscardRefused(discard, ops) ==
    discard /\ (ops = << >> \/ ops[1].op_type # "CodeRead")

\* C16: validate_mem_ops returns true iff, after the optional discard of one
\* leading stray CodeRead, the emulator and physical bus-op sequences have
\* equal length and agree at every index on kind, address and data, origin
\* tags aside; a requested discard whose leading op is absent or is not a
\* CodeRead makes it return false
C16_MemOpsVerdict ==
    vret.call = "validate_mem_ops" =>
        LET emu == vret.args.emu_ops
            refused == DiscardRefused(vret.mem.discard, emu)
            kept == IF vret.mem.discard /\ ~refused THEN Tail(emu) ELSE emu
        IN  /\ refused => vret.ret = "false"
            /\ vret.ret = "true" <=>
                   /\ ~refused
                   /\ Untagged(kept) = Untagged(v.current_instr.cpu_ops)

\* C16 witness: with a discard requested, a leading CodeRead was dropped and
\* the remaining op agreed with the physical one, whose origin tag differs
C16_Witness ==
    /\ vret.call = "validate_mem_ops"
    /\ vret.mem.discard
    /\ vret.ret = "true"
    /\ Len(vret.mem.cpu) = 1
    /\ Len(vret.args.emu_ops) = 2
    /\ vret.mem.cpu[1].flags # vret.mem.emu[1].flags

\* the last call was a validate_instruction that stepped the physical CPU
\* and compared the bus operations
ComparedMemOps ==
    /\ vret.call = "validate_instruction"
    /\ vret.stepped
    /\ vret.args.step.ok
    /\ vret.mem.called

\* C17 as stated: when the step returns discard = true, the op dropped before
\* the comparison is the leading CodeRead of the physical CPU's sequence and
\* the emulator's recorded sequence is compared unmodified
C17_DropsPhysicalAsStated ==
    (ComparedMemOps /\ vret.args.step.discard /\ vret.mem.ok) =>
        /\ vret.mem.emu = vret.args.emu_ops
        /\ vret.mem.cpu = Tail(vret.args.step.cpu_ops)

\* C17 amended: when the step returns discard = true, the op dropped before
\* the comparison is the leading CodeRead of the emulator's recorded
\* sequence; the physical CPU's sequence is compared unmodified; a discard
\* that finds no leading emulator CodeRead, and every other divergence,
\* ends in MemOpMismatch
C17_DropsEmulatorLeadingCodeRead ==
    ComparedMemOps =>
        LET emu == vret.args.emu_ops
            refused == DiscardRefused(vret.args.step.discard, emu)
        IN  /\ vret.mem.cpu = vret.args.step.cpu_ops
            /\ vret.mem.emu = IF vret.args.step.discard /\ ~refused
                              THEN Tail(emu) ELSE emu
            /\ refused => vret.ret = "Err(MemOpMismatch)"
            /\ vret.ret # "Err(MemOpMismatch)" =>
                   Untagged(vret.mem.emu) = Untagged(vret.mem.cpu)

\* C17 witness: the step returned discard = true, the emulator had recorded
\* a CodeRead and one more op, and the comparison passed on the second alone
C17_Witness ==
    /\ ComparedMemOps
    /\ vret.args.step.discard
    /\ vret.mem.ok
    /\ Len(vret.args.emu_ops) = 2
    /\ vret.args.emu_ops[1].op_type = "CodeRead"
    /\ Len(vret.mem.emu) = 1
    /\ Len(vret.args.step.cpu_ops) = 1

\* the first byte of instr that is no prefix
FirstNonPrefix(instr) ==
    instr[CHOOSE i \in 1..Len(instr) :
              /\ instr[i] \notin PrefixBytes
              /\ \A j \in 1..(i - 1) : instr[j] \in PrefixBytes]

\* the last call was a validate_instruction that stepped the physical CPU
SteppedInstruction ==
    /\ vret.call = "validate_instruction"
    /\ vret.stepped
    /\ vret.args.step.ok

\* the bus operations of the last validate_instruction call diverge: the
\* discard is refused, or the sequences differ in length or in the kind,
\* address or data of some op
MemOpsDiverge ==
    LET emu == vret.args.emu_ops
        refused == DiscardRefused(vret.args.step.discard, emu)
        kept == IF vret.args.step.discard /\ ~refused THEN Tail(emu) ELSE emu
    IN  refused \/ Untagged(kept) # Untagged(vret.args.step.cpu_ops)

\* C18: for an instruction whose first non-prefix byte is 0x9C,
\* validate_instruction never returns MemOpMismatch whatever the bus-op
\* sequences contain, while the cycle states are still compared and the
\* later validate_regs still compares registers and masked flags; for every
\* other opcode a bus-op divergence yields MemOpMismatch
C18_PushfExempt ==
    /\ SteppedInstruction =>
          IF FirstNonPrefix(vret.args.instr) = 156
          THEN /\ ~vret.mem.called
               /\ vret.ret # "Err(MemOpMismatch)"
               /\ (/\ vret.args.emu_states # << >>
                   /\ CorrectedStates.panic = NoPanic
                   /\ CorrectedStates.states # vret.args.emu_states)
                      => vret.ret = "Err(CycleMismatch)"
          ELSE MemOpsDiverge => vret.ret = "Err(MemOpMismatch)"
    /\ (/\ vret.call = "validate_regs"
        /\ vret.args.store.ok
        /\ v.current_instr.opcode = 156)
          => (vret.ret = "Ok" <=>
                /\ \A n \in ExactRegs \ {"ss"} :
                      v.current_instr.regs[1][n] = vret.args.regs[n]
                /\ mask_undefined_flags(156, 0, v.current_instr.regs[1].flags)
                     = mask_undefined_flags(156, 0, vret.args.regs.flags))

\* C18 witness: REP PUSHF was stepped, its bus operations diverged and its
\* cycle states matched, and the call returned Ok
C18_Witness ==
    /\ SteppedInstruction
    /\ vret.args.instr = << 243, 156 >>
    /\ MemOpsDiverge
    /\ vret.cyc.called
    /\ vret.ret = "Ok(Ok)"

C20_NoDiscardInCycleMode ==
    (v.mode = "Cycle" /\ vret.call = "validate_instruction")
        => ~vret.args.discard

(***************************************************************************)
(* Properties of the queue-count correction                                *)
(***************************************************************************)
\* C28: correct_queue_counts rewrites only q_len: for every i > 0 the q_len
\* of cycle i-1 becomes its original value minus one when cycle i carries
\* First or Subsequent, zero when it carries Flush, and stays when it is
\* Idle; the result is a non-negative queue length (no wrap below zero, no
\* panic), and the last q_len and every other field are unchanged
C28_CorrectionAsStated ==
    Len(cyc_hist) = 2 =>
        LET x == cyc_hist[1]
            y == cyc_hist[2]
        IN  /\ cyc_panic = NoPanic
            /\ Len(y) = Len(x)
            /\ \A i \in 1..Len(x) :
                  /\ y[i].q_op = x[i].q_op
                  /\ y[i].data = x[i].data
                  /\ y[i].q_len >= 0
                  /\ y[i].q_len =
                        IF i < Len(x) /\ x[i + 1].q_op \in {"First", "Subsequent"}
                        THEN x[i].q_len - 1
                        ELSE IF i < Len(x) /\ x[i + 1].q_op = "Flush" THEN 0
                        ELSE x[i].q_len

(***************************************************************************)
(* Properties of the validator's protocol                                  *)
(***************************************************************************)
\* C21: the validator's state starts at Setup and advances along
\* Setup -> Execute -> Readback -> Finished as the per-instruction protocol
\* runs, every state of the chain being reached during a validated
\* instruction: once validate_instruction has stepped the physical CPU the
\* state has left Setup, and once validate_regs has returned Ok it is
\* Finished
C21_StateAdvances ==
    /\ v.state \in {"Setup", "Execute", "Readback", "Finished"}
    /\ (vret.call = "validate_instruction" /\ vret.stepped) => v.state # "Setup"
    /\ (vret.call = "validate_regs" /\ vret.ret = "Ok") => v.state = "Finished"

\* C22: every failure of the remote CPU bridge, during register load
\* (set_regs), stepping (validate_instruction) or register store
\* (validate_regs), is returned to the caller as ValidatorError::CpuError;
\* the validator never panics on a bridge failure
C22_BridgeFailureReturned ==
    /\ vret.call = "set_regs" => vret.panic = NoPanic
    /\ (vret.call = "validate_regs" /\ ~vret.args.store.ok) =>
          vret.panic = NoPanic /\ vret.ret = "Err(CpuError)"
    /\ (/\ vret.call = "validate_instruction"
        /\ vret.stepped
        /\ ~vret.args.step.ok) =>
          vret.panic = NoPanic /\ vret.ret = "Err(CpuError)"

\* the address of the instruction the validator is on
CurrentAddr ==
    make_pointer(v.current_instr.regs[0].cs, v.current_instr.regs[0].ip)

\* C29: in Instruction mode with visit_once, begin_instruction marks the
\* instruction at A as discarded exactly when A is at or above 0xA0000 and
\* an instruction at A was validated successfully with no emulator memory
\* write to A since; below 0xA0000 it is never discarded.
C29_DiscardIffValidated ==
    (/\ vret.call = "begin_instruction"
     /\ v.mode = "Instruction"
     /\ v.visit_once) =>
        (v.current_instr.discard <=>
            (CurrentAddr >= UPPER_MEMORY /\ CurrentAddr \in validated))

\* instr holds nothing but prefix bytes
OnlyPrefixes(instr) == \A j \in 1..Len(instr) : instr[j] \in PrefixBytes

\* the call's arguments are malformed: an empty slice, a slice of prefix
\* bytes only, a ModR/M byte announced with no byte after the opcode, or an
\* after-image with flags == 0
Malformed(args) ==
    \/ OnlyPrefixes(args.instr)
    \/ args.has_modrm /\ prefix_scan(args.instr, 0) + 1 >= Len(args.instr)
    \/ args.regs.flags = 0

\* C30: validate_instruction returns Err(ParameterError), without panicking
\* and without stepping the physical CPU, for every malformed call.
C30_MalformedCallRefused ==
    (vret.call = "validate_instruction" /\ Malformed(vret.args)) =>
        /\ vret.panic = NoPanic
        /\ vret.ret = "Err(ParameterError)"
        /\ ~vret.stepped

(***************************************************************************)
(* Properties of the decoder                                               *)
(***************************************************************************)
\* the opcode byte of the queue, behind its prefixes
DecodedOpcode == code[prefix_scan(code, 0) + 1]

\* the reg field of the byte behind the opcode
DecodedExt == (code[prefix_scan(code, 0) + 2] \div 8) % 8

GroupOpcodes == {128, 129, 130, 131, 208, 209, 210, 211, 246, 247, 254, 255}

\* neither table has a row for the opcode and reg field of the queue
HasNoEntry ==
    /\ decode_primary(DecodedOpcode).mnemonic = "NoOpcode"
    /\ decode_group(DecodedOpcode, DecodedExt).mnemonic = "NoOpcode"

OperandBytes(type) ==
    CASE type.kind \in {"Immediate8", "Immediate8s", "Relative8"} -> 1
      [] type.kind \in {"Immediate16", "Relative16", "Offset8", "Offset16"} -> 2
      [] type.kind = "FarAddress" -> 4
      [] OTHER -> 0

\* the ModR/M byte and its displacement, if the instruction has one
ModRmBytes ==
    IF I_HAS_MODRM \in decoded.i.flags
    THEN LET byte == code[prefix_scan(code, 0) + 2]
         IN  1 + DispLen(byte \div 64, byte % 8)
    ELSE 0

\* the bytes of the operands the execution has yet to access
Pending ==
    (IF 1 \in accessed THEN 0 ELSE OperandBytes(decoded.i.operand1_type))
      + (IF 2 \in accessed THEN 0 ELSE OperandBytes(decoded.i.operand2_type))

\* C24: the size of a decoded instruction is its prefix bytes, plus the
\* opcode byte, plus the ModR/M byte with its displacement, plus the bytes of
\* its operands; decode reads all but the operand bytes from the queue, and
\* each operand access of the execution then fetches that operand's bytes.
C24_SizeIsBytesConsumed ==
    (decoded.called /\ decoded.ok) =>
        /\ decoded.i.size = prefix_scan(code, 0) + 1 + ModRmBytes
                              + OperandBytes(decoded.i.operand1_type)
                              + OperandBytes(decoded.i.operand2_type)
        /\ cursor = decoded.i.size - Pending

\* ES: ADD word [0x12FE], imm16 executed: seven bytes decoded and fetched
C24_Witness ==
    /\ decoded.called /\ decoded.ok
    /\ decoded.i.prefixes # {}
    /\ I_HAS_MODRM \in decoded.i.flags
    /\ decoded.i.operand1_type.kind = "AddressingMode"
    /\ decoded.i.operand2_type.kind = "Immediate16"
    /\ accessed = {1, 2}
    /\ decoded.i.size = 7
    /\ cursor = 7

\* C26 as stated: an instruction has the group-delay flag exactly when it
\* was decoded through the group-extension table.
C26_GroupDelayAsStated ==
    (decoded.called /\ decoded.ok) =>
        (I_GROUP_DELAY \in decoded.i.flags <=> DecodedOpcode \in GroupOpcodes)

\* C26: an instruction has the group-delay flag exactly when its opcode is
\* F6, F7, FE or FF; the groups 80-83 and D0-D3 and the primary table do
\* not set it.
C26_GroupDelayOnFGroups ==
    (decoded.called /\ decoded.ok) =>
        (I_GROUP_DELAY \in decoded.i.flags
            <=> DecodedOpcode \in {246, 247, 254, 255})

\* F6 /6 (DIV) decoded with the flag
C26_Witness ==
    /\ decoded.called /\ decoded.ok
    /\ DecodedOpcode = 246 /\ DecodedExt = 6
    /\ decoded.i.mnemonic = "DIV"
    /\ decoded.i.flags = {I_LOAD_EA, I_GROUP_DELAY, I_HAS_MODRM}

(***************************************************************************)
(* Properties of effective addresses and far pointers                      *)
(***************************************************************************)
\* the rm field that selects the mode
RmOf(mode) ==
    CHOOSE k \in 1..8 : \E t \in 1..3 : ModeNames[t][k] = mode.mode

\* the base and index registers of a mode, 0 where it has none
BaseOf(mode) ==
    IF mode.mode = "Disp16" THEN 0
    ELSE IF RmOf(mode) \in {1, 2, 8} THEN gpr.bx
    ELSE IF RmOf(mode) \in {3, 4, 7} THEN gpr.bp
    ELSE 0

IndexOf(mode) ==
    IF RmOf(mode) \in {1, 3, 5} THEN gpr.si
    ELSE IF RmOf(mode) \in {2, 4, 6} THEN gpr.di
    ELSE 0

\* C25: calc_effective_address returns as offset the sum of the mode's base
\* register, index register and displacement modulo 2^16, the signed
\* displacement counting as its 16-bit two's complement.
C25_OffsetIsWrappedSum ==
    (ea_ret.fn = "calc_effective_address" /\ ea_ret.panic = NoPanic) =>
        LET mode == ea.i.operand.mode
        IN  /\ ea_ret.offset =
                  (BaseOf(mode) + IndexOf(mode)
                      + ((mode.disp.val + 65536) % 65536)) % 65536
            /\ ea.last_ea = ea_ret.offset

\* [BX+0xFFFF] with BX = 0x0002 gives offset 0x0001
C25_Witness ==
    /\ ea_ret.fn = "calc_effective_address"
    /\ ea.i.operand.mode = AddressingMode("BxDisp16", Displacement("Disp16", -1))
    /\ gpr.bx = 2
    /\ ea_ret.offset = 1

\* the segment base the register-source form reads under
RegisterFormBase ==
    segment_val(cpu, IF ea.i.segment_override = "None" THEN "DS"
                     ELSE ea.i.segment_override)

\* C27: a far pointer's offset word is read at EA and its segment word at
\* EA+2 in the same segment, EA+2 wrapping within 16 bits before the 20-bit
\* linear address is formed; the register-source form of read_operand_farptr
\* reads both words at last_ea and last_ea+2.
C27_FarPointerWords ==
    (/\ ea_ret.fn \in {"read_operand_farptr", "read_operand_farptr2"}
     /\ ea_ret.returned = "Some") =>
        IF ea.i.operand.kind = "AddressingMode"
        THEN /\ ea_ret.offset_from # NotRead =>
                   ea_ret.offset_from =
                      calc_linear_address(ea_ret.seg_val, ea_ret.offset)
             /\ ea_ret.segment_from # NotRead =>
                   ea_ret.segment_from =
                      calc_linear_address(ea_ret.seg_val,
                                          (ea_ret.offset + 2) % 65536)
        ELSE /\ ea_ret.fn = "read_operand_farptr" =>
                   ea_ret.offset_from =
                      calc_linear_address(RegisterFormBase, ea.last_ea)
             /\ ea_ret.segment_from # NotRead =>
                   ea_ret.segment_from =
                      calc_linear_address(RegisterFormBase,
                                          (ea.last_ea + 2) % 65536)

====
